---- MODULE Spec2Model ----
(***************************************************************************)
(* Model of the resilient crawl-and-cache engine of mcp-deepwiki-server:   *)
(* the breadth-first crawler of DeepWikiFetcher (fetchAggregated,          *)
(* fetchPages, fetchAllPages, fetchSinglePageWithRetry, fetchSinglePage)   *)
(* and the ConcurrencyQueue of utils/concurrency.ts.                       *)
(***************************************************************************)
EXTENDS Integers, Sequences, FiniteSets, TLC

(***************************************************************************)
(* Bounds of the model.                                                    *)
(***************************************************************************)
\* pages of the upstream site in the small-site specifications
NumUrls == 4
\* a page of the small site links to pages among the next LinkWidth ones
LinkWidth == 2
\* the maxDepth argument ranges over MIN_DEPTH..MaxDepthBound
MaxDepthBound == 2
\* fetches that end in null, a rejection or a timeout, per behaviour
MaxFailures == 1
\* the specification of repeated crawls: pages of the site, calls of
\* fetchAggregated / fetchPages per behaviour, largest maxDepth argument
RecrawlUrls == 5
Recrawls == 2
RecrawlDepth == 3
\* pages the root of the wide site links to
CapFanout == 100
\* tasks handed to the ConcurrencyQueue per behaviour
NumTasks == 3
\* maxConcurrent ranges over 1..MaxConcurrency
MaxConcurrency == 2
\* the clock ticks TicksPerToken times while the RateLimiter refills one token
TicksPerToken == 2
\* maxTokens of the RateLimiter ranges over 1..MaxTokensBound
MaxTokensBound == 2
\* acquire calls per behaviour, and the largest number of tokens of a call
NumAcquires == 3
MaxAcquire == 2
\* ticks of the clock in the specifications of the RateLimiter
LimiterTime == 4
\* maxAttempts of retry ranges over 1..MaxAttemptsBound
MaxAttemptsBound == 4
\* backoffFactor ranges over FactorDen/FactorDen .. MaxFactorNum/FactorDen
FactorDen == 2
MaxFactorNum == 4
\* execute calls on the CircuitBreaker per behaviour
NumCalls == 5
\* failureThreshold ranges over 1..MaxThreshold
MaxThreshold == 2
\* resetTimeout of the CircuitBreaker, in ticks
ResetTicks == 1
\* ticks of the clock in the specification of the CircuitBreaker
BreakerTime == 5
\* the page fetches through the breaker, and the ms in a unit of their delays
PageFetches == 2
DelayUnit == 250
\* the keys of the cache, and the calls that wait for the file system at once
NumCacheKeys == 2
MaxInFlight == 2
\* the largest ttl passed to set, in ticks
MaxTtl == 1
\* the calls on the cache, and the time they are spread over
NumCacheOps == 3
CacheTime == 2

(***************************************************************************)
(* Program constants.                                                      *)
(***************************************************************************)
\* while (queue.length > 0 && pages.length < 100)
PAGE_LIMIT == 100
\* queue.splice(0, Math.min(5, queue.length))
BATCH_SIZE == 5
\* maxDepth: z.number().int().min(1)
MIN_DEPTH == 1
\* new ConcurrencyQueue({ maxConcurrent: 5, timeout: 30000 })
FETCHER_MAX_CONCURRENT == 5
\* if (this.successCount >= 3) { // Require 3 successes to close
SUCCESSES_TO_CLOSE == 3

Modes == {"aggregate", "pages"}
RootUrl == 0

VARIABLES
    \* ---- the upstream site and the budgets of the environment ----
    shape,        \* "mesh" (small site) or "star" (wide site)
    siteSize,     \* number of URLs of the site: 0..siteSize-1, 0 is the root
    depthArg,     \* the largest maxDepth the callers pass
    site,         \* url -> sequence of links, for the pages served so far
    crawlsLeft,   \* crawls that may still be started
    failuresLeft, \* fetches that may still fail
    \* ---- DeepWikiFetcher ----
    pc,           \* "idle" | "loop" | "await"
    mode,         \* mode of the crawl in progress
    maxDepth,     \* maxDepth of the crawl in progress
    visited,      \* fetchAllPages: const visited = new Set<string>()
    pages,        \* fetchAllPages: const pages: DeepWikiPage[]
    queue,        \* fetchAllPages: const queue: {url, depth}[]  (the frontier)
    batchTasks,   \* the tasks handed to addAllSettled, with their progress
    abandoned,    \* timed-out fetches whose network call is still in flight
    pageCache,    \* cache entries "page:<url>": url -> cached page
    resultCache,  \* cache entries "<mode>:<repo>:<maxDepth>": key -> result
    returned,     \* what the last fetchAggregated / fetchPages call returned,
                  \* with the mode and maxDepth it was called with
    dispatched,   \* history: the tasks dispatched by the crawl, in order, each
                  \* with the number of its batch, the way it settled and, for
                  \* the last batch dispatched, its rank among the tasks of
                  \* the batch in completion order
    completed,    \* history: <<mode, maxDepth>> -> the result of the last crawl
                  \* that completed for them
    \* ---- ConcurrencyQueue (utils/concurrency.ts) ----
    maxConcurrent, \* this.maxConcurrent
    cqQueue,      \* this.queue: the wrapped tasks not yet started
    running,      \* this.running
    tstate,       \* task -> "new" | "queued" | "executing" | "finished"
    tresult,      \* task -> "none" | "ok" | "fail": how the task function ended
    timer,        \* task -> "none" | "armed" | "cleared" | "fired"
    promise,      \* task -> the promise returned by add(task)
    settleOrder,  \* history: the tasks in the order their promises settled
    callKind,     \* "none" | "addAll" | "addAllSettled" | "processConcurrentlySettled"
    callTasks,    \* the tasks of that call, in the order of its argument
    \* ---- the clock (Date.now(), setTimeout) ----
    now,          \* Date.now(), in ticks
    timeLimit,    \* the clock stops at timeLimit
    \* ---- RateLimiter (utils/concurrency.ts) ----
    rlMaxTokens,  \* this.maxTokens, in tokens
    rlMaxN,       \* the largest number of tokens the callers ask for
    rlTokens,     \* this.tokens, in units of 1/TicksPerToken token
    rlLastRefill, \* this.lastRefill
    rlCalls,      \* history: the acquire calls, in call order
    \* ---- retry (utils/logger.ts) ----
    fnPlan,       \* how the successive invocations of fn end: "ok" or an error
    rtMaxAttempts, \* options.maxAttempts
    rtBaseDelay,  \* options.baseDelay, in ms
    rtMaxDelay,   \* options.maxDelay, in ms
    rtFactorNum,  \* options.backoffFactor is rtFactorNum / FactorDen
    rtJitter,     \* options.jitter
    rtRetryable,  \* options.retryCondition: the errors for which it is true
    rtPc,         \* "idle" | "calling" | "sleeping" | "resolved" | "rejected"
    rtAttempt,    \* attempt
    rtLastError,  \* lastError
    rtResult,     \* what retry resolved or rejected with
    rtInvocations, \* history: the number of invocations of fn
    rtSleeps,     \* history: the number of backoff delays taken
    rtDelay,      \* history: the last delay, as calculateDelay returned it
    \* ---- CircuitBreaker (utils/logger.ts) ----
    cbThreshold,  \* this.options.failureThreshold
    cbResetTimeout, \* this.options.resetTimeout, in ticks
    cbState,      \* this.state: "CLOSED" | "OPEN" | "HALF_OPEN"
    cbFailureCount, \* this.failureCount
    cbLastFailureTime, \* this.lastFailureTime
    cbSuccessCount, \* this.successCount
    cbCalls,      \* the execute calls, in call order:
                  \* "new" | "running" | "ok" | "failed" | "refused"
    cbInvocations, \* history: the number of invocations of wrapped functions
    cbStreak,     \* history: the failures recorded since the last success
    cbTrial,      \* history: the call that last moved the breaker to HALF_OPEN
    cbRecorded,   \* history: the outcomes recorded since that move
    cbReopenedAt, \* history: the time of the last failure recorded in HALF_OPEN
    \* ---- RetryConditions (utils/logger.ts) ----
    rcCode,       \* the status code of the error `HTTP <code> error`
    rcResult,     \* "none", or what networkAndServerErrors returned for it
    \* ---- CacheService (services/ai-service.ts) ----
    csDefaultTtl, \* this.defaultTtl, in ticks
    csDirOk,      \* whether files can be written under this.cacheDir
    memoryCache,  \* this.memoryCache: key -> entry
    cacheFiles,   \* the files under this.cacheDir: key -> content
    cacheOps,     \* the calls in flight, each at one of its awaits
    csOpsLeft,    \* calls that may still be made
    csRestartsLeft, \* new instances that may still be constructed
    csCorruptLeft, \* files that may still be corrupted
    csLastSet,    \* history: key -> the last set of the key
    csLastGet,    \* history: the last get that returned
    \* ---- DeepWikiFetcher.fetchSinglePageWithRetry / fetchSinglePage ----
    pfPc,         \* "idle" | "lookup" (await cache.get) | "execute"
    pfCount,      \* the number of calls of fetchSinglePageWithRetry so far
    pfCached,     \* whether the cache holds `page:<url>`
    pfLookup,     \* "none" | "hit" | "miss": what the lookup of the call gave
    pfCall,       \* the number of the execute call of this fetch, 0 if none
    pfAcquiresBefore, \* the number of acquire calls made before this fetch
    pfResponses,  \* history: how the network calls of this fetch ended
    pfResult      \* "none" | "page" | "null" | "rejected": how the call ended

siteVars == <<shape, siteSize, depthArg>>

fetcherVars == <<siteVars, site, crawlsLeft, failuresLeft, pc, mode, maxDepth,
                 visited, pages, queue, batchTasks, abandoned, pageCache,
                 resultCache, returned, dispatched, completed>>

cqVars == <<maxConcurrent, cqQueue, running, tstate, tresult, timer, promise,
            settleOrder, callKind, callTasks>>

clockVars == <<now, timeLimit>>

limiterVars == <<rlMaxTokens, rlMaxN, rlTokens, rlLastRefill, rlCalls>>

retryOptions == <<fnPlan, rtMaxAttempts, rtBaseDelay, rtMaxDelay, rtFactorNum,
                  rtJitter, rtRetryable>>

retryVars == <<retryOptions, rtPc, rtAttempt, rtLastError, rtResult,
               rtInvocations, rtSleeps, rtDelay>>

breakerOptions == <<cbThreshold, cbResetTimeout>>

breakerVars == <<breakerOptions, cbState, cbFailureCount, cbLastFailureTime,
                 cbSuccessCount, cbCalls, cbInvocations, cbStreak, cbTrial,
                 cbRecorded, cbReopenedAt>>

conditionVars == <<rcCode, rcResult>>

cacheOptions == <<csDefaultTtl, csDirOk>>

cacheVars == <<cacheOptions, memoryCache, cacheFiles, cacheOps, csOpsLeft,
               csRestartsLeft, csCorruptLeft, csLastSet, csLastGet>>

pageVars == <<pfPc, pfCount, pfCached, pfLookup, pfCall, pfAcquiresBefore,
              pfResponses, pfResult>>

\* what the actions of each component leave alone
notFetcherVars == <<cqVars, clockVars, limiterVars, retryVars, breakerVars,
                    conditionVars, cacheVars, pageVars>>
notQueueVars == <<fetcherVars, clockVars, limiterVars, retryVars, breakerVars,
                  conditionVars, cacheVars, pageVars>>
notLimiterVars == <<fetcherVars, cqVars, retryVars, breakerVars, conditionVars,
                    cacheVars, pageVars>>
notClockVars == <<fetcherVars, cqVars, limiterVars, retryVars, breakerVars,
                  conditionVars, cacheVars, pageVars>>
notRetryVars == <<fetcherVars, cqVars, clockVars, limiterVars, breakerVars,
                  conditionVars, cacheVars, pageVars>>
notBreakerVars == <<fetcherVars, cqVars, clockVars, limiterVars, retryVars,
                    conditionVars, cacheVars, pageVars>>
notConditionVars == <<fetcherVars, cqVars, clockVars, limiterVars, retryVars,
                      breakerVars, cacheVars, pageVars>>
notCacheVars == <<fetcherVars, cqVars, clockVars, limiterVars, retryVars,
                  breakerVars, conditionVars, pageVars>>
notPageVars == <<fetcherVars, cqVars, clockVars, limiterVars, retryVars,
                 breakerVars, conditionVars, cacheVars>>

vars == <<fetcherVars, cqVars, clockVars, limiterVars, retryVars, breakerVars,
          conditionVars, cacheVars, pageVars>>

(***************************************************************************)
(* Helpers.                                                                *)
(***************************************************************************)
Min(a, b) == IF a < b THEN a ELSE b

Range(s) == {s[i] : i \in DOMAIN s}

\* the elements of a set of numbers as an ascending sequence
RECURSIVE Ascending(_)
Ascending(S) ==
    IF S = {} THEN <<>>
    ELSE LET m == CHOOSE x \in S : \A y \in S : x <= y
         IN <<m>> \o Ascending(S \ {m})

\* f with the entry k -> v added or replaced (Map.set, a file written)
Put(f, k, v) == [x \in (DOMAIN f) \cup {k} |-> IF x = k THEN v ELSE f[x]]

(***************************************************************************)
(* The upstream site (NetworkFetch and LinkExtractor).  extractLinks      *)
(* returns the same-repository links of a page without duplicates; the     *)
(* links of a page are fixed the first time the page is served.            *)
(***************************************************************************)
Urls == 0 .. (siteSize - 1)

\* a page of the small site links back to the root (its navigation) and to
\* any of the next LinkWidth pages
MeshTargets(u) == {v \in Urls : v > u /\ v <= u + LinkWidth}

HomeLink(u) == IF u = RootUrl THEN <<>> ELSE <<RootUrl>>

LinkChoices(u) ==
    IF u \in DOMAIN site THEN {site[u]}
    ELSE IF shape = "star"
         THEN {IF u = RootUrl THEN Ascending(Urls \ {RootUrl}) ELSE <<RootUrl>>}
         ELSE {HomeLink(u) \o Ascending(S) : S \in SUBSET MeshTargets(u)}

\* extractLinks(page.rawHtml, baseUrl)
extractLinks(page) == site[page.url]

(***************************************************************************)
(* DeepWikiFetcher.fetchAllPages: the loop head.                           *)
(***************************************************************************)
\* the while condition
LoopCondition == Len(queue) > 0 /\ Len(pages) < PAGE_LIMIT

\* queue.splice(0, Math.min(5, queue.length)): the removed tasks
currentBatch(q) == SubSeq(q, 1, Min(BATCH_SIZE, Len(q)))

\* mutant: slice instead of splice, the batch stays in the queue
QueueNotSpliced(q) == q

\* queue.splice(0, Math.min(5, queue.length)): what stays in the queue
QueueAfterSplice(q) == SubSeq(q, Min(BATCH_SIZE, Len(q)) + 1, Len(q))

\* .filter(({url, depth}) => !visited.has(url) && depth <= maxDepth): the
\* filter runs over the whole batch before .map adds any url to visited
FilterBatch(batch, vis, md) ==
    SelectSeq(batch, LAMBDA t : t.url \notin vis /\ t.depth <= md)

\* the closure () => this.fetchSinglePageWithRetry(url, depth), not yet settled
NewTask(t) ==
    [url |-> t.url, depth |-> t.depth, phase |-> "lookup",
     status |-> "pending", value |-> <<>>, order |-> 0]

\* history: the batches dispatched so far, and the record of a dispatched task
BatchNumber == IF dispatched = <<>> THEN 0 ELSE dispatched[Len(dispatched)].batch

Dispatch(t, b) ==
    [url |-> t.url, depth |-> t.depth, batch |-> b, status |-> "pending",
     value |-> <<>>, order |-> 0]

DispatchBatch ==
    /\ pc = "loop"
    /\ LoopCondition
    /\ LET selected == FilterBatch(currentBatch(queue), visited, maxDepth)
       IN /\ queue' = QueueAfterSplice(queue)
          /\ visited' = visited \cup {selected[i].url : i \in DOMAIN selected}
          /\ dispatched' = IF selected = <<>> THEN dispatched
                 ELSE [i \in DOMAIN dispatched |-> [dispatched[i] EXCEPT !.order = 0]]
                      \o [i \in DOMAIN selected |-> Dispatch(selected[i], BatchNumber + 1)]
          /\ IF selected = <<>>
             THEN /\ pc' = "loop"                 \* continue
                  /\ batchTasks' = <<>>
             ELSE /\ pc' = "await"                \* await addAllSettled
                  /\ batchTasks' = [i \in DOMAIN selected |-> NewTask(selected[i])]
    /\ UNCHANGED <<notFetcherVars, siteVars, site, crawlsLeft, failuresLeft, mode,
                   maxDepth, pages, abandoned, pageCache, resultCache,
                   completed, returned>>

(***************************************************************************)
(* One task of the batch: fetchSinglePageWithRetry, fetchSinglePage, and   *)
(* the timeout of the ConcurrencyQueue around it.                          *)
(***************************************************************************)
\* history: the rank of the next task of the batch to settle (1 = first)
NextRank ==
    Cardinality({j \in DOMAIN batchTasks : batchTasks[j].phase = "settled"}) + 1

Settle(task, st, val) ==
    [task EXCEPT !.phase = "settled", !.status = st, !.value = val,
                 !.order = NextRank]

\* history: how task i of the batch in flight settled
Settled(i, st, val) ==
    [dispatched EXCEPT ![Len(dispatched) - Len(batchTasks) + i] =
        [@ EXCEPT !.status = st, !.value = val, !.order = NextRank]]

\* const cached = await this.cache.get(cacheKey); if (cached) return cached
TaskCacheHit(i) ==
    /\ pc = "await"
    /\ i \in DOMAIN batchTasks
    /\ batchTasks[i].phase = "lookup"
    /\ batchTasks[i].url \in DOMAIN pageCache
    /\ batchTasks' = [batchTasks EXCEPT
                        ![i] = Settle(@, "fulfilled", <<pageCache[@.url]>>)]
    /\ dispatched' = Settled(i, "fulfilled", <<pageCache[batchTasks[i].url]>>)
    /\ UNCHANGED <<notFetcherVars, siteVars, site, crawlsLeft, failuresLeft, pc, mode,
                   maxDepth, visited, pages, queue, abandoned, pageCache,
                   resultCache, completed, returned>>

\* the cache lookup misses: the circuit breaker, retry and the fetch follow
TaskCacheMiss(i) ==
    /\ pc = "await"
    /\ i \in DOMAIN batchTasks
    /\ batchTasks[i].phase = "lookup"
    /\ batchTasks[i].url \notin DOMAIN pageCache
    /\ batchTasks' = [batchTasks EXCEPT ![i].phase = "fetching"]
    /\ UNCHANGED <<notFetcherVars, siteVars, site, crawlsLeft, failuresLeft, pc, mode,
                   maxDepth, visited, pages, queue, abandoned, pageCache,
                   resultCache, completed, returned, dispatched>>

\* the page built by fetchSinglePage(url, depth)
NewPage(url, depth) == [url |-> url, depth |-> depth]

\* fetchSinglePage gets an ok response: the page is cached and returned
TaskFetchOk(i) ==
    /\ pc = "await"
    /\ i \in DOMAIN batchTasks
    /\ batchTasks[i].phase = "fetching"
    /\ LET t == batchTasks[i]
           page == NewPage(t.url, t.depth)
       IN /\ \E links \in LinkChoices(t.url) : site' = Put(site, t.url, links)
          /\ pageCache' = Put(pageCache, t.url, page)
          /\ batchTasks' = [batchTasks EXCEPT ![i] = Settle(@, "fulfilled", <<page>>)]
    /\ dispatched' = Settled(i, "fulfilled", <<NewPage(batchTasks[i].url, batchTasks[i].depth)>>)
    /\ UNCHANGED <<notFetcherVars, siteVars, crawlsLeft, failuresLeft, pc, mode, maxDepth,
                   visited, pages, queue, abandoned, resultCache,
                   completed, returned>>

\* if (!response.ok) return null
TaskFetchNull(i) ==
    /\ pc = "await"
    /\ i \in DOMAIN batchTasks
    /\ batchTasks[i].phase = "fetching"
    /\ failuresLeft > 0
    /\ failuresLeft' = failuresLeft - 1
    /\ batchTasks' = [batchTasks EXCEPT ![i] = Settle(@, "fulfilled", <<>>)]
    /\ dispatched' = Settled(i, "fulfilled", <<>>)
    /\ UNCHANGED <<notFetcherVars, siteVars, site, crawlsLeft, pc, mode, maxDepth, visited,
                   pages, queue, abandoned, pageCache, resultCache,
                   completed, returned>>

\* the fetch throws until retry gives up, or the circuit breaker is open
TaskFetchReject(i) ==
    /\ pc = "await"
    /\ i \in DOMAIN batchTasks
    /\ batchTasks[i].phase = "fetching"
    /\ failuresLeft > 0
    /\ failuresLeft' = failuresLeft - 1
    /\ batchTasks' = [batchTasks EXCEPT ![i] = Settle(@, "rejected", <<>>)]
    /\ dispatched' = Settled(i, "rejected", <<>>)
    /\ UNCHANGED <<notFetcherVars, siteVars, site, crawlsLeft, pc, mode, maxDepth, visited,
                   pages, queue, abandoned, pageCache, resultCache,
                   completed, returned>>

\* the timer of ConcurrencyQueue.executeWithTimeout fires first: add() rejects,
\* the fetch itself is not cancelled
TaskTimeout(i) ==
    /\ pc = "await"
    /\ i \in DOMAIN batchTasks
    /\ batchTasks[i].phase = "fetching"
    /\ failuresLeft > 0
    /\ failuresLeft' = failuresLeft - 1
    /\ abandoned' = abandoned \cup {NewPage(batchTasks[i].url, batchTasks[i].depth)}
    /\ batchTasks' = [batchTasks EXCEPT ![i] = Settle(@, "rejected", <<>>)]
    /\ dispatched' = Settled(i, "rejected", <<>>)
    /\ UNCHANGED <<notFetcherVars, siteVars, site, crawlsLeft, pc, mode, maxDepth, visited,
                   pages, queue, pageCache, resultCache, completed, returned>>

\* an abandoned fetch completes after its timeout: fetchSinglePage still caches
\* the page, nobody receives it (an abandoned fetch that fails changes nothing)
AbandonedFetchOk(page) ==
    /\ page \in abandoned
    /\ abandoned' = abandoned \ {page}
    /\ \E links \in LinkChoices(page.url) : site' = Put(site, page.url, links)
    /\ pageCache' = Put(pageCache, page.url, page)
    /\ UNCHANGED <<notFetcherVars, siteVars, crawlsLeft, failuresLeft, pc, mode, maxDepth,
                   visited, pages, queue, batchTasks, resultCache,
                   completed, returned,
                   dispatched>>

(***************************************************************************)
(* DeepWikiFetcher.fetchAllPages: the loop over batchResults.              *)
(***************************************************************************)
\* ConcurrencyQueue.addAllSettled resolves once every task has settled
AllSettled(tasks) == \A i \in DOMAIN tasks : tasks[i].phase = "settled"

\* result.status === 'fulfilled' && result.value
HasPage(result) == result.status = "fulfilled" /\ result.value # <<>>

\* mutant: the links of every page are pushed, whatever its depth
PushLinksAtAnyDepth(q, page, vis, md) ==
    q \o [i \in DOMAIN SelectSeq(extractLinks(page), LAMBDA l : l \notin vis) |->
            [url |-> SelectSeq(extractLinks(page), LAMBDA l : l \notin vis)[i],
             depth |-> page.depth + 1]]

\* if (page.depth < maxDepth) for (const link of links)
\*     if (!visited.has(link)) queue.push({url: link, depth: page.depth + 1})
PushLinks(q, page, vis, md) ==
    IF page.depth < md
    THEN q \o [i \in DOMAIN SelectSeq(extractLinks(page), LAMBDA l : l \notin vis) |->
                 [url |-> SelectSeq(extractLinks(page), LAMBDA l : l \notin vis)[i],
                  depth |-> page.depth + 1]]
    ELSE q

\* for (const result of batchResults) { ... }, from result i on
RECURSIVE ProcessFrom(_, _, _, _)
ProcessFrom(i, results, pgs, q) ==
    IF i > Len(results) THEN [pages |-> pgs, queue |-> q]
    ELSE IF HasPage(results[i])
         THEN ProcessFrom(i + 1, results, Append(pgs, results[i].value[1]),
                          PushLinks(q, results[i].value[1], visited, maxDepth))
         ELSE ProcessFrom(i + 1, results, pgs, q)

\* mutant: a rejected task makes the whole batch fail (Promise.all)
ProcessBatchFailFast(results, pgs, q) ==
    IF \E i \in DOMAIN results : results[i].status = "rejected"
    THEN [pages |-> pgs, queue |-> q]
    ELSE ProcessFrom(1, results, pgs, q)

\* mutant: the results are processed in the order in which the tasks settled
ProcessInCompletionOrder(results, pgs, q) ==
    ProcessFrom(1, [k \in DOMAIN results |->
                      results[CHOOSE i \in DOMAIN results : results[i].order = k]],
                pgs, q)

\* const batchResults = await this.concurrencyQueue.addAllSettled(batchTasks):
\* one outcome per task, in the order of batchTasks
ProcessBatchResults(results, pgs, q) == ProcessFrom(1, results, pgs, q)

ProcessResults ==
    /\ pc = "await"
    /\ AllSettled(batchTasks)
    /\ LET after == ProcessBatchResults(batchTasks, pages, queue)
       IN /\ pages' = after.pages
          /\ queue' = after.queue
    /\ batchTasks' = <<>>
    /\ pc' = "loop"
    /\ UNCHANGED <<notFetcherVars, siteVars, site, crawlsLeft, failuresLeft, mode, maxDepth,
                   visited, abandoned, pageCache, resultCache, completed,
                   returned,
                   dispatched>>

(***************************************************************************)
(* DeepWikiFetcher.fetchAggregated and fetchPages.                         *)
(***************************************************************************)
\* mutant: the key leaves out maxDepth
KeyWithoutDepth(m, md) == <<m, 0>>

\* `aggregated:<repo>:<maxDepth>` and `pages:<repo>:<maxDepth>`
cacheKey(m, md) == <<m, md>>

\* the DeepWikiResult built from the pages of the crawl; the aggregated
\* content is one section per page, in the order of pages
BuildResult(m, pgs) ==
    [mode |-> m,
     content |-> IF m = "aggregate" THEN [i \in DOMAIN pgs |-> pgs[i].url] ELSE <<>>,
     pages |-> IF m = "pages" THEN pgs ELSE <<>>,
     pageCount |-> Len(pgs)]

NoResult == BuildResult("pages", <<>>)

\* cache hit: return cached
FetchCached(m, md) ==
    /\ pc = "idle"
    /\ crawlsLeft > 0
    /\ cacheKey(m, md) \in DOMAIN resultCache
    /\ crawlsLeft' = crawlsLeft - 1
    /\ returned' = [kind |-> "result", fromCache |-> TRUE, mode |-> m,
                    maxDepth |-> md, result |-> resultCache[cacheKey(m, md)]]
    /\ UNCHANGED <<notFetcherVars, siteVars, site, failuresLeft, pc, mode, maxDepth,
                   visited, pages, queue, batchTasks, abandoned, pageCache,
                   resultCache, completed, dispatched>>

\* cache miss: fetchAllPages starts with the root in the queue
FetchStart(m, md) ==
    /\ pc = "idle"
    /\ crawlsLeft > 0
    /\ cacheKey(m, md) \notin DOMAIN resultCache
    /\ crawlsLeft' = crawlsLeft - 1
    /\ mode' = m
    /\ maxDepth' = md
    /\ visited' = {}
    /\ pages' = <<>>
    /\ queue' = <<[url |-> RootUrl, depth |-> 0]>>
    /\ dispatched' = <<>>
    /\ batchTasks' = <<>>
    /\ pc' = "loop"
    /\ returned' = [kind |-> "none", fromCache |-> FALSE, mode |-> m,
                    maxDepth |-> md, result |-> NoResult]
    /\ UNCHANGED <<notFetcherVars, siteVars, site, failuresLeft, abandoned, pageCache,
                   resultCache, completed>>

\* fetchAllPages returns; the result is built, cached for 1 hour and returned
FetchFinish ==
    /\ pc = "loop"
    /\ ~LoopCondition
    /\ LET result == BuildResult(mode, pages)
       IN /\ resultCache' = Put(resultCache, cacheKey(mode, maxDepth), result)
          /\ completed' = Put(completed, <<mode, maxDepth>>, result)
          /\ returned' = [kind |-> "result", fromCache |-> FALSE, mode |-> mode,
                          maxDepth |-> maxDepth, result |-> result]
    /\ pc' = "idle"
    /\ UNCHANGED <<notFetcherVars, siteVars, site, crawlsLeft, failuresLeft, mode, maxDepth,
                   visited, pages, queue, batchTasks, abandoned, pageCache,
                   dispatched>>

(***************************************************************************)
(* ConcurrencyQueue (utils/concurrency.ts).  A task is a function that     *)
(* returns a promise; task t resolves with the value of t or rejects with  *)
(* the error of t.  Time is abstract: the timer of a started task may fire *)
(* at any moment before the task settles.                                  *)
(***************************************************************************)
Tasks == 1 .. NumTasks

Pending == [status |-> "pending", kind |-> "none", of |-> 0]

\* the value task t resolves with, the error it rejects with, and the error
\* new Error(`Task timed out after ${this.timeout}ms`)
ValueOf(t) == [status |-> "fulfilled", kind |-> "value", of |-> t]
ErrorOf(t) == [status |-> "rejected", kind |-> "error", of |-> t]
TimedOut == [status |-> "rejected", kind |-> "timed out", of |-> 0]

\* mutant: a promise that a later resolve or reject settles again
SettleAgain(p, outcome) == outcome

\* resolve / reject of a promise: only the first call settles it
SettlePromise(p, outcome) == IF p.status = "pending" THEN outcome ELSE p

\* the part of the state that processQueue reads and writes
QueueState == [queue |-> cqQueue, running |-> running, tstate |-> tstate,
               timer |-> timer]

\* mutant: the guard of processQueue lets one task too many start
CanStartOneMore(run, max, q) == ~(run > max \/ Len(q) = 0)

\* if (this.running >= this.maxConcurrent || this.queue.length === 0) return
CanStart(run, max, q) == ~(run >= max \/ Len(q) = 0)

\* processQueue up to `await task()`: the head of the queue is started, which
\* runs executeWithTimeout: the timer is armed and the task function called
processQueue(s) ==
    IF CanStart(s.running, maxConcurrent, s.queue)
    THEN [queue |-> Tail(s.queue),
          running |-> s.running + 1,
          tstate |-> [s.tstate EXCEPT ![Head(s.queue)] = "executing"],
          timer |-> [s.timer EXCEPT ![Head(s.queue)] = "armed"]]
    ELSE s

\* add(task): this.queue.push(wrappedTask); this.processQueue()
add(s, t) ==
    processQueue([s EXCEPT !.queue = Append(@, t), !.tstate[t] = "queued"])

\* tasks.map(task => this.add(task))
RECURSIVE addEach(_, _)
addEach(s, ts) == IF ts = <<>> THEN s ELSE addEach(add(s, Head(ts)), Tail(ts))

\* mutant: a finally block that frees the slot without starting the next task
finallyWithoutNext(s) == [s EXCEPT !.running = @ - 1]

\* the finally block of processQueue: this.running--; this.processQueue()
finally(s) == processQueue([s EXCEPT !.running = @ - 1])

SetQueueState(s) ==
    /\ cqQueue' = s.queue
    /\ running' = s.running
    /\ tstate' = s.tstate
    /\ timer' = s.timer

\* the number of the next task handed to the queue
NextTask == Cardinality({t \in Tasks : tstate[t] # "new"}) + 1

\* one call of add(task)
Add(t) ==
    /\ t = NextTask
    /\ callKind # "processConcurrentlySettled"
    /\ SetQueueState(add(QueueState, t))
    /\ UNCHANGED <<notQueueVars, maxConcurrent, tresult, promise, settleOrder,
                   callKind, callTasks>>

\* the argument of a batch call: the next n tasks (a task is numbered by the
\* place of its add call among the add calls)
Batches ==
    {[i \in 1 .. n |-> NextTask + i - 1] : n \in 1 .. (NumTasks - NextTask + 1)}

\* addAll(tasks) and addAllSettled(tasks): every task is added at once
Call(kind, ts) ==
    /\ callKind = "none"
    /\ callKind' = kind
    /\ callTasks' = ts
    /\ SetQueueState(addEach(QueueState, ts))
    /\ UNCHANGED <<notQueueVars, maxConcurrent, tresult, promise, settleOrder>>

AddAll(ts) == Call("addAll", ts)

AddAllSettled(ts) == Call("addAllSettled", ts)

\* processConcurrentlySettled(items, processor, options): a queue of its own,
\* one task per item, addAllSettled
ProcessConcurrentlySettled(ts) ==
    /\ \A t \in Tasks : tstate[t] = "new"
    /\ Call("processConcurrentlySettled", ts)

\* history: the promise of a task of the batch call settles
Settles(t) ==
    IF t \in Range(callTasks) THEN Append(settleOrder, t) ELSE settleOrder

\* the task function of t ends, with a value (ok) or an error: clearTimeout,
\* then resolve or reject; when that settles the promise, wrappedTask ends and
\* processQueue goes on to its finally block
TaskEnds(t, ok) ==
    /\ tstate[t] = "executing"
    /\ tresult' = [tresult EXCEPT ![t] = IF ok THEN "ok" ELSE "fail"]
    /\ promise' = [promise EXCEPT
                     ![t] = SettlePromise(@, IF ok THEN ValueOf(t) ELSE ErrorOf(t))]
    /\ LET s == [QueueState EXCEPT
                   !.tstate[t] = "finished",
                   !.timer[t] = IF @ = "armed" THEN "cleared" ELSE @]
       IN IF promise[t].status = "pending"
          THEN /\ SetQueueState(finally(s))
               /\ settleOrder' = Settles(t)
          ELSE /\ SetQueueState(s)
               /\ UNCHANGED settleOrder
    /\ UNCHANGED <<notQueueVars, maxConcurrent, callKind, callTasks>>

TaskSucceeds(t) == TaskEnds(t, TRUE)

TaskFails(t) == TaskEnds(t, FALSE)

\* the timer of executeWithTimeout fires before the task has settled: the
\* promise rejects, wrappedTask ends, the task function goes on executing
Timeout(t) ==
    /\ timer[t] = "armed"
    /\ promise' = [promise EXCEPT ![t] = SettlePromise(@, TimedOut)]
    /\ settleOrder' = Settles(t)
    /\ SetQueueState(finally([QueueState EXCEPT !.timer[t] = "fired"]))
    /\ UNCHANGED <<notQueueVars, maxConcurrent, tresult, callKind, callTasks>>

(***************************************************************************)
(* What the batch calls resolve with.                                      *)
(***************************************************************************)
\* mutant: the outcomes in the order in which the promises settled
SettledInCompletionOrder(ts, prom) ==
    LET order == SelectSeq(settleOrder, LAMBDA t : t \in Range(ts))
    IN [i \in DOMAIN ts |-> IF i <= Len(order) THEN prom[order[i]] ELSE prom[ts[i]]]

\* the outcomes of the promises of ts, in the order of ts
OutcomesOf(ts, prom) == [i \in DOMAIN ts |-> prom[ts[i]]]

\* mutant: allSettled that rejects when a promise rejects
AllSettledFailsFast(ts, prom) ==
    IF \E i \in DOMAIN ts : prom[ts[i]].status = "rejected"
    THEN [status |-> "rejected", value |-> <<>>]
    ELSE IF \A i \in DOMAIN ts : prom[ts[i]].status # "pending"
         THEN [status |-> "fulfilled", value |-> OutcomesOf(ts, prom)]
         ELSE [status |-> "pending", value |-> <<>>]

\* Promise.allSettled(promises): resolves once every promise has settled
PromiseAllSettled(ts, prom) ==
    IF \A i \in DOMAIN ts : prom[ts[i]].status # "pending"
    THEN [status |-> "fulfilled", value |-> OutcomesOf(ts, prom)]
    ELSE [status |-> "pending", value |-> <<>>]

\* Promise.all(promises): rejects with the reason of the first promise that
\* rejects, resolves with the values once every promise is fulfilled
PromiseAll(ts, prom) ==
    IF \E i \in DOMAIN ts : prom[ts[i]].status = "rejected"
    THEN LET rejected == SelectSeq(settleOrder,
                LAMBDA t : t \in Range(ts) /\ prom[t].status = "rejected")
         IN [status |-> "rejected", value |-> <<prom[Head(rejected)]>>]
    ELSE IF \A i \in DOMAIN ts : prom[ts[i]].status = "fulfilled"
         THEN [status |-> "fulfilled", value |-> OutcomesOf(ts, prom)]
         ELSE [status |-> "pending", value |-> <<>>]

\* the promise returned by the batch call in progress
callResult ==
    IF callKind = "addAll" THEN PromiseAll(callTasks, promise)
    ELSE IF callKind \in {"addAllSettled", "processConcurrentlySettled"}
         THEN PromiseAllSettled(callTasks, promise)
         ELSE [status |-> "pending", value |-> <<>>]

\* settled.forEach((result, index) => ...): the values of the fulfilled
\* outcomes, and the reasons of the rejected ones with their index
SplitSettled(settled) ==
    LET idx == [i \in DOMAIN settled |-> i]
        okIdx == SelectSeq(idx, LAMBDA i : settled[i].status = "fulfilled")
        errIdx == SelectSeq(idx, LAMBDA i : settled[i].status # "fulfilled")
    IN [results |-> [k \in DOMAIN okIdx |-> settled[okIdx[k]]],
        errors |-> [k \in DOMAIN errIdx |->
                      [index |-> errIdx[k], error |-> settled[errIdx[k]]]]]

(***************************************************************************)
(* Specification of the ConcurrencyQueue.                                  *)
(***************************************************************************)
\* a queue on which nothing has been called
InitQueueIdle ==
    /\ cqQueue = <<>>
    /\ running = 0
    /\ tstate = [t \in Tasks |-> "new"]
    /\ tresult = [t \in Tasks |-> "none"]
    /\ timer = [t \in Tasks |-> "none"]
    /\ promise = [t \in Tasks |-> Pending]
    /\ settleOrder = <<>>
    /\ callKind = "none"
    /\ callTasks = <<>>

(***************************************************************************)
(* The clock.  Date.now() is `now`; a timer set for a delay fires at any   *)
(* moment from its deadline on.                                            *)
(***************************************************************************)
Tick ==
    /\ now < timeLimit
    /\ now' = now + 1
    /\ UNCHANGED <<timeLimit, notClockVars>>

(***************************************************************************)
(* RateLimiter (utils/concurrency.ts).  The limiter refills one token in   *)
(* TicksPerToken ticks; tokens are counted in units of 1/TicksPerToken     *)
(* token, so that this.tokens, a fraction in the code, is a whole number.  *)
(***************************************************************************)
Acquires == 1 .. NumAcquires

Units(n) == n * TicksPerToken

\* refill(): tokensToAdd = timePassed * refillRate;
\* this.tokens = Math.min(this.maxTokens, this.tokens + tokensToAdd)
refill(tokens, lastRefill, t) ==
    Min(Units(rlMaxTokens), tokens + (t - lastRefill))

\* mutant: acquire that deducts at once whenever the bucket is short
NoWait(n, tokens) == 0

\* waitTime = ((tokens - this.tokens) / this.refillRate) * 1000, in ticks
waitTime(n, tokens) == Units(n) - tokens

\* this.tokens -= tokens
Deduct(n, tokens) == tokens - Units(n)

\* the number of the next acquire call
NextAcquire == Cardinality({c \in Acquires : rlCalls[c].state # "new"}) + 1

NewAcquire == [state |-> "new", n |-> 0, calledAt |-> 0, wakeAt |-> 0, doneAt |-> 0]

\* acquire(n) up to its return or its await
Acquire(n) ==
    /\ NextAcquire \in Acquires
    /\ rlLastRefill' = now
    /\ LET c == NextAcquire
           filled == refill(rlTokens, rlLastRefill, now)
       IN IF filled >= Units(n)
          THEN /\ rlTokens' = Deduct(n, filled)
               /\ rlCalls' = [rlCalls EXCEPT ![c] =
                     [state |-> "done", n |-> n, calledAt |-> now,
                      wakeAt |-> now, doneAt |-> now]]
          ELSE /\ now + waitTime(n, filled) <= timeLimit
               /\ rlTokens' = filled
               /\ rlCalls' = [rlCalls EXCEPT ![c] =
                     [state |-> "sleeping", n |-> n, calledAt |-> now,
                      wakeAt |-> now + waitTime(n, filled), doneAt |-> 0]]
    /\ UNCHANGED <<notLimiterVars, clockVars, rlMaxTokens, rlMaxN>>

\* the timer of acquire call c fires: this.refill(); this.tokens -= tokens
AcquireWakes(c) ==
    /\ rlCalls[c].state = "sleeping"
    /\ now >= rlCalls[c].wakeAt
    /\ rlLastRefill' = now
    /\ rlTokens' = Deduct(rlCalls[c].n, refill(rlTokens, rlLastRefill, now))
    /\ rlCalls' = [rlCalls EXCEPT ![c].state = "done", ![c].doneAt = now]
    /\ UNCHANGED <<notLimiterVars, clockVars, rlMaxTokens, rlMaxN>>

\* tryAcquire(n)
TryAcquire(n) ==
    /\ rlLastRefill' = now
    /\ LET filled == refill(rlTokens, rlLastRefill, now)
       IN rlTokens' = IF filled >= Units(n) THEN Deduct(n, filled) ELSE filled
    /\ UNCHANGED <<notLimiterVars, clockVars, rlMaxTokens, rlMaxN, rlCalls>>

\* getTokens()
GetTokens ==
    /\ rlLastRefill' = now
    /\ rlTokens' = refill(rlTokens, rlLastRefill, now)
    /\ UNCHANGED <<notLimiterVars, clockVars, rlMaxTokens, rlMaxN, rlCalls>>

\* new RateLimiter(maxTokens, refillRate), on which nothing has been called
InitLimiterIdle ==
    /\ rlTokens = Units(rlMaxTokens)
    /\ rlLastRefill = now
    /\ rlCalls = [c \in Acquires |-> NewAcquire]

\* a component that is not part of the specification at hand
InitLimiterUnused ==
    /\ rlMaxTokens = 1
    /\ rlMaxN = 1
    /\ InitLimiterIdle

InitClockUnused ==
    /\ now = 0
    /\ timeLimit = 0

(***************************************************************************)
(* retry and calculateDelay (utils/logger.ts).  fn is a function whose     *)
(* i-th invocation ends as fnPlan[i] says.  backoffFactor is the fraction  *)
(* rtFactorNum / FactorDen, delays are whole milliseconds.                 *)
(***************************************************************************)
ErrorKinds == {"network", "fatal"}

Attempts == 1 .. MaxAttemptsBound

\* what invocation i of fn resolves with, and the error it rejects with
FnValue(i) == [kind |-> "value", call |-> i]
FnError(i) == [kind |-> fnPlan[i], call |-> i]
Nothing == [kind |-> "none", call |-> 0]

RECURSIVE Pow(_, _)
Pow(b, e) == IF e = 0 THEN 1 ELSE b * Pow(b, e - 1)

\* mutant: Math.floor instead of Math.round
FloorDiv(p, q) == p \div q

\* Math.round(p / q), for p >= 0 and q > 0: halves are rounded up
Round(p, q) == (2 * p + q) \div (2 * q)

\* delay = baseDelay * Math.pow(backoffFactor, attempt - 1);
\* delay = Math.min(delay, maxDelay): the fraction num / den
CappedDelay(attempt, baseDelay, maxDelay, factorNum) ==
    LET num == baseDelay * Pow(factorNum, attempt - 1)
        den == Pow(FactorDen, attempt - 1)
    IN IF num <= maxDelay * den THEN [num |-> num, den |-> den]
       ELSE [num |-> maxDelay, den |-> 1]

\* calculateDelay(attempt, baseDelay, maxDelay, backoffFactor, jitter): the
\* values it can return.  With jitter the delay d becomes a number of
\* [0.75 d, 1.25 d) before it is rounded.
calculateDelay(attempt, baseDelay, maxDelay, factorNum, jitter) ==
    LET d == CappedDelay(attempt, baseDelay, maxDelay, factorNum)
    IN IF jitter
       THEN Round(3 * d.num, 4 * d.den) .. ((5 * d.num + 2 * d.den - 1) \div (4 * d.den))
       ELSE {Round(d.num, d.den)}

\* mutant: retry that ignores retryCondition
AlwaysRetry(attempt, error) == attempt = rtMaxAttempts

\* if (attempt === maxAttempts || !retryCondition(lastError)) throw lastError
GivesUp(attempt, error) ==
    attempt = rtMaxAttempts \/ error.kind \notin rtRetryable

\* mutant: a loop that runs one attempt short
OneAttemptLess(attempt, max) == attempt < max

\* for (let attempt = 1; attempt <= maxAttempts; attempt++)
LoopGoesOn(attempt, max) == attempt <= max

\* retry(fn, options) up to the first await fn()
RetryStart ==
    /\ rtPc = "idle"
    /\ rtAttempt' = 1
    /\ IF LoopGoesOn(1, rtMaxAttempts)
       THEN /\ rtPc' = "calling"
            /\ rtInvocations' = rtInvocations + 1
            /\ UNCHANGED rtResult
       ELSE /\ rtPc' = "rejected"             \* throw lastError!
            /\ rtResult' = rtLastError
            /\ UNCHANGED rtInvocations
    /\ UNCHANGED <<notRetryVars, retryOptions, rtLastError, rtSleeps, rtDelay>>

\* fn() resolves: return result
RetryFnResolves ==
    /\ rtPc = "calling"
    /\ fnPlan[rtInvocations] = "ok"
    /\ rtPc' = "resolved"
    /\ rtResult' = FnValue(rtInvocations)
    /\ UNCHANGED <<notRetryVars, retryOptions, rtAttempt, rtLastError,
                   rtInvocations, rtSleeps, rtDelay>>

\* fn() rejects: the catch block
RetryFnRejects ==
    /\ rtPc = "calling"
    /\ fnPlan[rtInvocations] # "ok"
    /\ rtLastError' = FnError(rtInvocations)
    /\ IF GivesUp(rtAttempt, FnError(rtInvocations))
       THEN /\ rtPc' = "rejected"
            /\ rtResult' = FnError(rtInvocations)
            /\ UNCHANGED <<rtSleeps, rtDelay>>
       ELSE /\ rtPc' = "sleeping"
            /\ rtDelay' \in calculateDelay(rtAttempt, rtBaseDelay, rtMaxDelay,
                                           rtFactorNum, rtJitter)
            /\ rtSleeps' = rtSleeps + 1
            /\ UNCHANGED rtResult
    /\ UNCHANGED <<notRetryVars, retryOptions, rtAttempt, rtInvocations>>

\* await sleep(delay) ends: attempt++, the loop condition, fn() again
RetrySleepEnds ==
    /\ rtPc = "sleeping"
    /\ rtAttempt' = rtAttempt + 1
    /\ IF LoopGoesOn(rtAttempt + 1, rtMaxAttempts)
       THEN /\ rtPc' = "calling"
            /\ rtInvocations' = rtInvocations + 1
            /\ UNCHANGED rtResult
       ELSE /\ rtPc' = "rejected"             \* throw lastError!
            /\ rtResult' = rtLastError
            /\ UNCHANGED rtInvocations
    /\ UNCHANGED <<notRetryVars, retryOptions, rtLastError, rtSleeps, rtDelay>>

\* retry has not been called
InitRetryIdle ==
    /\ rtPc = "idle"
    /\ rtAttempt = 0
    /\ rtLastError = Nothing
    /\ rtResult = Nothing
    /\ rtInvocations = 0
    /\ rtSleeps = 0
    /\ rtDelay = 0

\* a component that is not part of the specification at hand
InitRetryUnused ==
    /\ fnPlan = [i \in Attempts |-> "ok"]
    /\ rtMaxAttempts = 0
    /\ rtBaseDelay = 0
    /\ rtMaxDelay = 0
    /\ rtFactorNum = FactorDen
    /\ rtJitter = FALSE
    /\ rtRetryable = ErrorKinds
    /\ InitRetryIdle

(***************************************************************************)
(* CircuitBreaker (utils/logger.ts).  execute calls overlap: a wrapped     *)
(* function is in flight from its invocation to the moment it settles.     *)
(***************************************************************************)
Calls == 1 .. NumCalls

\* the number of the next execute call
NextCall == Cardinality({c \in Calls : cbCalls[c] # "new"}) + 1

\* mutant: the breaker admits a call when exactly resetTimeout has elapsed
ElapsedOrEqual(t, last) == t - last >= cbResetTimeout

\* Date.now() - this.lastFailureTime > this.options.resetTimeout
ResetElapsed(t, last) == t - last > cbResetTimeout

\* mutant: the breaker closes as soon as resetTimeout has elapsed
StraightToClosed == "CLOSED"

\* this.state = CircuitBreakerState.HALF_OPEN
AfterResetTimeout == "HALF_OPEN"

\* mutant: no number of successes closes the breaker
NeverCloses(successCount) == FALSE

\* mutant: one success closes the breaker
ClosesAtOnce(successCount) == successCount >= 1

\* if (this.successCount >= 3)
ClosesAfter(successCount) == successCount >= SUCCESSES_TO_CLOSE

\* mutant: onSuccess that does not reset failureCount
CountKept(count) == count

\* onSuccess: this.failureCount = 0
CountAfterSuccess(count) == 0

\* mutant: onFailure that leaves lastFailureTime alone
KeepsFailureTime(t, last) == last

\* onFailure: this.lastFailureTime = Date.now()
FailureTime(t, last) == t

\* mutant: a refused call counts as a failure at the time of the call
ExecuteRefusalCounts(c) ==
    /\ c = NextCall
    /\ IF cbState = "OPEN"
       THEN IF ResetElapsed(now, cbLastFailureTime)
            THEN /\ cbState' = AfterResetTimeout
                 /\ cbSuccessCount' = 0
                 /\ cbCalls' = [cbCalls EXCEPT ![c] = "running"]
                 /\ cbInvocations' = cbInvocations + 1
                 /\ cbTrial' = c
                 /\ cbRecorded' = 0
                 /\ UNCHANGED cbLastFailureTime
            ELSE /\ cbCalls' = [cbCalls EXCEPT ![c] = "refused"]
                 /\ cbLastFailureTime' = now
                 /\ UNCHANGED <<cbState, cbSuccessCount, cbInvocations, cbTrial,
                                cbRecorded>>
       ELSE /\ cbCalls' = [cbCalls EXCEPT ![c] = "running"]
            /\ cbInvocations' = cbInvocations + 1
            /\ UNCHANGED <<cbState, cbSuccessCount, cbTrial, cbRecorded,
                           cbLastFailureTime>>
    /\ UNCHANGED <<notBreakerVars, breakerOptions, cbFailureCount, cbStreak,
                   cbReopenedAt>>

\* execute(fn) up to `await fn()` or the throw of the circuit-open error
Execute(c) ==
    /\ c = NextCall
    /\ IF cbState = "OPEN"
       THEN IF ResetElapsed(now, cbLastFailureTime)
            THEN /\ cbState' = AfterResetTimeout
                 /\ cbSuccessCount' = 0
                 /\ cbCalls' = [cbCalls EXCEPT ![c] = "running"]
                 /\ cbInvocations' = cbInvocations + 1
                 /\ cbTrial' = c
                 /\ cbRecorded' = 0
            ELSE /\ cbCalls' = [cbCalls EXCEPT ![c] = "refused"]
                 /\ UNCHANGED <<cbState, cbSuccessCount, cbInvocations, cbTrial,
                                cbRecorded>>
       ELSE /\ cbCalls' = [cbCalls EXCEPT ![c] = "running"]
            /\ cbInvocations' = cbInvocations + 1
            /\ UNCHANGED <<cbState, cbSuccessCount, cbTrial, cbRecorded>>
    /\ UNCHANGED <<notBreakerVars, breakerOptions, cbFailureCount,
                   cbLastFailureTime, cbStreak, cbReopenedAt>>

\* fn() of call c resolves: this.onSuccess()
FnResolves(c) ==
    /\ cbCalls[c] = "running"
    /\ cbCalls' = [cbCalls EXCEPT ![c] = "ok"]
    /\ cbFailureCount' = CountAfterSuccess(cbFailureCount)
    /\ IF cbState = "HALF_OPEN"
       THEN /\ cbSuccessCount' = cbSuccessCount + 1
            /\ cbState' = IF ClosesAfter(cbSuccessCount + 1) THEN "CLOSED"
                          ELSE cbState
       ELSE UNCHANGED <<cbSuccessCount, cbState>>
    /\ cbStreak' = 0
    /\ cbRecorded' = cbRecorded + 1
    /\ UNCHANGED <<notBreakerVars, breakerOptions, cbLastFailureTime,
                   cbInvocations, cbTrial, cbReopenedAt>>

\* fn() of call c rejects: this.onFailure()
FnRejects(c) ==
    /\ cbCalls[c] = "running"
    /\ cbCalls' = [cbCalls EXCEPT ![c] = "failed"]
    /\ cbFailureCount' = cbFailureCount + 1
    /\ cbLastFailureTime' = FailureTime(now, cbLastFailureTime)
    /\ cbState' = IF cbState = "HALF_OPEN" THEN "OPEN"
                  ELSE IF cbFailureCount + 1 >= cbThreshold THEN "OPEN"
                  ELSE cbState
    /\ cbReopenedAt' = IF cbState = "HALF_OPEN" THEN now ELSE cbReopenedAt
    /\ cbStreak' = cbStreak + 1
    /\ cbRecorded' = cbRecorded + 1
    /\ UNCHANGED <<notBreakerVars, breakerOptions, cbSuccessCount,
                   cbInvocations, cbTrial>>

\* mutant: reset() that closes the breaker and keeps the counters
ResetStateOnly ==
    /\ cbState' = "CLOSED"
    /\ UNCHANGED <<notBreakerVars, breakerOptions, cbFailureCount, cbSuccessCount,
                   cbLastFailureTime, cbCalls, cbInvocations, cbStreak, cbTrial,
                   cbRecorded, cbReopenedAt>>

\* reset(): CLOSED, and the three counters back to 0; the calls in flight
\* stay in flight
Reset ==
    /\ cbState' = "CLOSED"
    /\ cbFailureCount' = 0
    /\ cbSuccessCount' = 0
    /\ cbLastFailureTime' = 0
    /\ UNCHANGED <<notBreakerVars, breakerOptions, cbCalls, cbInvocations,
                   cbStreak, cbTrial, cbRecorded, cbReopenedAt>>

\* new CircuitBreaker(options), on which nothing has been called
InitBreakerIdle ==
    /\ cbState = "CLOSED"
    /\ cbFailureCount = 0
    /\ cbLastFailureTime = 0
    /\ cbSuccessCount = 0
    /\ cbCalls = [c \in Calls |-> "new"]
    /\ cbInvocations = 0
    /\ cbStreak = 0
    /\ cbTrial = 0
    /\ cbRecorded = 0
    /\ cbReopenedAt = -1

\* a component that is not part of the specification at hand
InitBreakerUnused ==
    /\ cbThreshold = 1
    /\ cbResetTimeout = ResetTicks
    /\ InitBreakerIdle

(***************************************************************************)
(* DeepWikiFetcher.fetchSinglePageWithRetry: circuitBreaker.execute around *)
(* retry.  The function the breaker wraps is one call of retry, so the     *)
(* page fetches of the model follow one another.                           *)
(***************************************************************************)
\* the options fetchSinglePageWithRetry passes to retry
FETCH_MAX_ATTEMPTS == 3
FETCH_BASE_DELAY == 1000
FETCH_BACKOFF_FACTOR == 2
\* the maxDelay retry takes when the options have none
DEFAULT_MAX_DELAY == 30000

\* the behaviours of fetchSinglePage over the attempts of one retry
FetchPlans ==
    {plan \in [Attempts -> {"ok"} \cup ErrorKinds] :
        \A i \in Attempts : i > FETCH_MAX_ATTEMPTS => plan[i] = "ok"}

\* mutant: the breaker around each attempt, retry around the breaker
AttemptRejected == rtLastError # Nothing /\ rtPc \in {"sleeping", "rejected"}

\* the promise of retry(...) is rejected: what the wrapped function throws
WrappedRejected == rtPc = "rejected"

\* this.circuitBreaker.execute(async () => ...) for the next page
PageFetchExecute(c) ==
    /\ c <= PageFetches
    /\ rtPc = "idle"
    /\ \A d \in Calls : cbCalls[d] # "running"
    /\ Execute(c)

\* the wrapped function runs: return retry(() => this.fetchSinglePage(...))
PageFetchRetry ==
    /\ \E c \in Calls : cbCalls[c] = "running"
    /\ RetryStart

\* the wrapped function resolves with what retry resolved with
PageFetchResolves(c) ==
    /\ rtPc = "resolved"
    /\ FnResolves(c)

\* the wrapped function rejects with what retry threw
PageFetchRejects(c) ==
    /\ WrappedRejected
    /\ FnRejects(c)

\* fetchSinglePageWithRetry has returned; the next page gets a retry of its
\* own
PageFetchReturns ==
    /\ rtPc \in {"resolved", "rejected"}
    /\ \A d \in Calls : cbCalls[d] # "running"
    /\ rtPc' = "idle"
    /\ rtAttempt' = 0
    /\ rtLastError' = Nothing
    /\ rtResult' = Nothing
    /\ rtInvocations' = 0
    /\ rtSleeps' = 0
    /\ rtDelay' = 0
    /\ UNCHANGED <<notRetryVars, retryOptions>>

\* the upstream: fetchSinglePage behaves in another way for the next page
NextPageBehaviour ==
    /\ rtPc = "idle"
    /\ cbCalls[1] # "new"
    /\ \A d \in Calls : cbCalls[d] # "running"
    /\ fnPlan' \in FetchPlans \ {fnPlan}
    /\ UNCHANGED <<notRetryVars, rtMaxAttempts, rtBaseDelay, rtMaxDelay, rtFactorNum,
                   rtJitter, rtRetryable, rtPc, rtAttempt, rtLastError, rtResult,
                   rtInvocations, rtSleeps, rtDelay>>

(***************************************************************************)
(* DeepWikiFetcher.fetchSinglePageWithRetry and fetchSinglePage, step by   *)
(* step, for one URL: the lookup in the page cache, circuitBreaker.execute *)
(* around retry, and in every attempt rateLimiter.acquire() and the        *)
(* network call.  The calls follow one another.                            *)
(***************************************************************************)
\* the statuses of the responses of the upstream; NoResponse stands for a
\* fetch that throws (network error, abort)
StatusCodes == {200, 404, 503}
NoResponse == 0

\* response.ok
ResponseOk(status) == status \in 200 .. 299

ServerError(status) == status \in 500 .. 599

\* the acquire calls made since fetchSinglePageWithRetry was called
AcquiresOfFetch == (NextAcquire - 1) - pfAcquiresBefore

\* fetchSinglePageWithRetry(url, depth) is called: await this.cache.get
PageCall ==
    /\ pfPc = "idle"
    /\ pfCount < PageFetches
    /\ pfPc' = "lookup"
    /\ pfCount' = pfCount + 1
    /\ pfLookup' = "none"
    /\ pfCall' = 0
    /\ pfAcquiresBefore' = NextAcquire - 1
    /\ pfResponses' = <<>>
    /\ pfResult' = "none"
    /\ UNCHANGED <<notPageVars, pfCached>>

\* if (cached) return cached
PageCacheHit ==
    /\ pfPc = "lookup"
    /\ pfCached
    /\ pfLookup' = "hit"
    /\ pfResult' = "page"
    /\ pfPc' = "idle"
    /\ UNCHANGED <<notPageVars, pfCount, pfCached, pfCall, pfAcquiresBefore,
                   pfResponses>>

\* the lookup misses: return this.circuitBreaker.execute(...) comes next
PageCacheMiss ==
    /\ pfPc = "lookup"
    /\ ~pfCached
    /\ pfLookup' = "miss"
    /\ pfCall' = NextCall
    /\ pfPc' = "execute"
    /\ UNCHANGED <<notPageVars, pfCount, pfCached, pfAcquiresBefore, pfResponses,
                   pfResult>>

\* this.circuitBreaker.execute(async () => retry(...))
PageExecute(c) ==
    /\ pfPc = "execute"
    /\ c = pfCall
    /\ cbCalls[c] = "new"
    /\ Execute(c)

\* the wrapped function runs: retry(() => this.fetchSinglePage(url, depth))
PageRetry ==
    /\ pfPc = "execute"
    /\ pfCall \in Calls
    /\ cbCalls[pfCall] = "running"
    /\ RetryStart

\* fetchSinglePage: await this.rateLimiter.acquire(), once in every attempt
PageAcquire ==
    /\ rtPc = "calling"
    /\ AcquiresOfFetch < rtInvocations
    /\ Acquire(1)

\* the token of the attempt has been taken
Acquired ==
    /\ AcquiresOfFetch = rtInvocations
    /\ rlCalls[NextAcquire - 1].state = "done"

\* fetchSinglePage: await fetch(url, ...) settles; a response that is ok is
\* parsed and the page is cached
PageRequest(status) ==
    /\ rtPc = "calling"
    /\ Acquired
    /\ Len(pfResponses) < rtInvocations
    /\ IF fnPlan[rtInvocations] = "ok" THEN status \in StatusCodes
                                        ELSE status = NoResponse
    /\ pfResponses' = Append(pfResponses, status)
    /\ pfCached' = (pfCached \/ ResponseOk(status))
    /\ UNCHANGED <<notPageVars, pfPc, pfCount, pfLookup, pfCall, pfAcquiresBefore,
                   pfResult>>

\* fetchSinglePage returns: the page, or null if (!response.ok)
PageFnResolves ==
    /\ Len(pfResponses) = rtInvocations
    /\ RetryFnResolves

\* fetchSinglePage rethrows what fetch threw
PageFnRejects ==
    /\ Len(pfResponses) = rtInvocations
    /\ RetryFnRejects

\* the wrapped function resolves with what retry resolved with
PageResolves(c) ==
    /\ pfPc = "execute"
    /\ c = pfCall
    /\ PageFetchResolves(c)

\* the wrapped function rejects with what retry threw
PageRejects(c) ==
    /\ pfPc = "execute"
    /\ c = pfCall
    /\ PageFetchRejects(c)

\* what fetchSinglePageWithRetry returns once execute has settled
PageOutcome ==
    IF cbCalls[pfCall] # "ok" THEN "rejected"
    ELSE IF ResponseOk(pfResponses[Len(pfResponses)]) THEN "page" ELSE "null"

\* fetchSinglePageWithRetry returns or throws
PageReturns ==
    /\ pfPc = "execute"
    /\ pfCall \in Calls
    /\ cbCalls[pfCall] \in {"ok", "failed", "refused"}
    /\ pfResult' = PageOutcome
    /\ pfPc' = "idle"
    /\ rtPc' = "idle"
    /\ rtAttempt' = 0
    /\ rtLastError' = Nothing
    /\ rtResult' = Nothing
    /\ rtInvocations' = 0
    /\ rtSleeps' = 0
    /\ rtDelay' = 0
    /\ UNCHANGED <<fetcherVars, cqVars, clockVars, limiterVars, breakerVars,
                   conditionVars, cacheVars, retryOptions, pfCount, pfCached,
                   pfLookup, pfCall, pfAcquiresBefore, pfResponses>>

\* the entry `page:<url>` expires (30 minutes) or is deleted
PageExpires ==
    /\ pfPc = "idle"
    /\ pfCached
    /\ pfCached' = FALSE
    /\ UNCHANGED <<notPageVars, pfPc, pfCount, pfLookup, pfCall, pfAcquiresBefore,
                   pfResponses, pfResult>>

\* fetchSinglePageWithRetry has not been called
InitPageIdle ==
    /\ pfPc = "idle"
    /\ pfCount = 0
    /\ pfLookup = "none"
    /\ pfCall = 0
    /\ pfAcquiresBefore = 0
    /\ pfResponses = <<>>
    /\ pfResult = "none"

\* a component that is not part of the specification at hand
InitPageUnused ==
    /\ pfCached = FALSE
    /\ InitPageIdle

(***************************************************************************)
(* RetryConditions.networkAndServerErrors (utils/logger.ts).  A string is  *)
(* the sequence of its characters.                                         *)
(***************************************************************************)
\* the 4xx and 5xx status codes
HttpCodes == 400 .. 599

DigitChars == <<"0", "1", "2", "3", "4", "5", "6", "7", "8", "9">>

UpperChars == <<"A", "B", "C", "D", "E", "F", "G", "H", "I", "J", "K", "L", "M",
                "N", "O", "P", "Q", "R", "S", "T", "U", "V", "W", "X", "Y", "Z">>

LowerChars == <<"a", "b", "c", "d", "e", "f", "g", "h", "i", "j", "k", "l", "m",
                "n", "o", "p", "q", "r", "s", "t", "u", "v", "w", "x", "y", "z">>

\* `${code}`: the decimal digits of a three-digit number
CodeText(code) ==
    <<DigitChars[(code \div 100) + 1], DigitChars[((code \div 10) % 10) + 1],
      DigitChars[(code % 10) + 1]>>

\* new Error(`HTTP ${code} error`).message
HttpErrorMessage(code) ==
    <<"H", "T", "T", "P", " ">> \o CodeText(code) \o <<" ", "e", "r", "r", "o", "r">>

\* String.prototype.toLowerCase
toLowerCase(s) ==
    [i \in DOMAIN s |->
        IF \E j \in DOMAIN UpperChars : UpperChars[j] = s[i]
        THEN LowerChars[CHOOSE j \in DOMAIN UpperChars : UpperChars[j] = s[i]]
        ELSE s[i]]

\* String.prototype.includes
includes(s, sub) ==
    \E i \in 1 .. (Len(s) - Len(sub) + 1) : SubSeq(s, i, i + Len(sub) - 1) = sub

\* RetryConditions.networkAndServerErrors(error), for error.message
networkAndServerErrors(message) ==
    LET m == toLowerCase(message)
    IN \/ includes(m, <<"n", "e", "t", "w", "o", "r", "k">>)
       \/ includes(m, <<"t", "i", "m", "e", "o", "u", "t">>)
       \/ includes(m, <<"e", "c", "o", "n", "n", "r", "e", "s", "e", "t">>)
       \/ includes(m, <<"e", "n", "o", "t", "f", "o", "u", "n", "d">>)
       \/ includes(m, <<"5">>)

\* RetryConditions.networkAndServerErrors(new Error(`HTTP ${rcCode} error`))
ApplyCondition ==
    /\ rcResult = "none"
    /\ rcCode \in HttpCodes
    /\ rcResult' = IF networkAndServerErrors(HttpErrorMessage(rcCode))
                   THEN "true" ELSE "false"
    /\ UNCHANGED <<notConditionVars, rcCode>>

\* a component that is not part of the specification at hand
InitConditionUnused ==
    /\ rcCode = 0
    /\ rcResult = "none"

(***************************************************************************)
(* CacheService (services/ai-service.ts).  A call that has to wait for the *)
(* file system occupies a slot of cacheOps until it returns; the data of   *)
(* a set is the number of the call, so that every set stores another       *)
(* value.  TTLs and timestamps are in ticks of the clock.                  *)
(***************************************************************************)
CacheKeys == 1 .. NumCacheKeys

Slots == 1 .. MaxInFlight

\* the ttl argument of set: omitted, or a number of ticks
TtlArgs == {<<>>} \cup {<<t>> : t \in 0 .. MaxTtl}

\* generateCacheKey(key): the sha256 digest of the key, free of collisions
generateCacheKey(k) == <<"sha256", k>>

\* getCacheFilePath(cacheKey): join(cacheDir, dir1, dir2, filename)
getCacheFilePath(ck) == <<"cacheDir", ck[2], ".json">>

NoEntry == [data |-> 0, timestamp |-> 0, ttl |-> 0, key |-> <<>>]

\* JSON.stringify(entry, null, 2), and the text the corruption leaves
Stringify(entry) == [text |-> "entry", entry |-> entry]
InvalidJson == [text |-> "invalid json", entry |-> NoEntry]

\* JSON.parse(fileContent): whether it returns, and what it returns
CanParse(content) == content.text = "entry"
Parse(content) == content.entry

\* f without the entry of k (Map.delete, fs.unlink)
Drop(f, k) == [x \in (DOMAIN f) \ {k} |-> f[x]]

\* mutant: an entry that never expires
NeverExpired(entry, t) == FALSE

\* isExpired(entry): Date.now() - entry.timestamp > entry.ttl
isExpired(entry, t) == t - entry.timestamp > entry.ttl

\* ttl || this.defaultTtl
EffectiveTtl(ttlArg) ==
    IF ttlArg = <<>> \/ ttlArg[1] = 0 THEN csDefaultTtl ELSE ttlArg[1]

\* mutant: set that leaves the memory tier to the file write
NotStoredInMemory(mem, ck, entry) == mem

\* this.memoryCache.set(cacheKey, entry) of set
StoreInMemory(mem, ck, entry) == Put(mem, ck, entry)

\* mutant: a file write that succeeds whatever the directory
AlwaysWritten(files, path, entry) == Put(files, path, Stringify(entry))

\* await fs.mkdir(...); await fs.writeFile(filePath, JSON.stringify(entry)):
\* the files after it, the same files when it throws
WriteFile(files, path, entry) ==
    IF csDirOk THEN Put(files, path, Stringify(entry)) ELSE files

\* the text of the file of key k, "none" without a file
FileText(k) ==
    LET path == getCacheFilePath(generateCacheKey(k))
    IN IF path \in DOMAIN cacheFiles THEN cacheFiles[path].text ELSE "none"

\* history: no set of the key so far; the record of a set holds its data,
\* its time, its ttl argument and the ttl of its entry, how its file write
\* ended, and whether a delete of the key (running at the set, or called
\* after it), a new instance or a call of cleanup followed it
NoSet ==
    [data |-> 0, timestamp |-> 0, ttlArg |-> <<>>, ttl |-> 0, wrote |-> "none",
     deleted |-> FALSE, restarted |-> FALSE, swept |-> FALSE]

\* a slot without a call
IdleOp ==
    [op |-> "none", key |-> 0, pc |-> "idle", entry |-> NoEntry, issuedAt |-> 0,
     fileAtIssue |-> "none", seen |-> NoSet, todo |-> {}, file |-> <<>>]

Quiet == \A s \in Slots : cacheOps[s] = IdleOp

\* the slot of the next call: the lowest free one
FreeSlot == CHOOSE s \in Slots :
                /\ cacheOps[s] = IdleOp
                /\ \A r \in Slots : r < s => cacheOps[r] # IdleOp

CanCall == csOpsLeft > 0 /\ \E s \in Slots : cacheOps[s] = IdleOp

\* history: no get so far; the record of a get that returned holds what it
\* returned and from which tier, the times of its call and of its return,
\* and the file and the last set of the key as they were at its call
NoGet ==
    [key |-> 0, result |-> "none", entry |-> NoEntry, tier |-> "none",
     issuedAt |-> 0, at |-> 0, fileAtIssue |-> "none", seen |-> NoSet]

GetReturn(k, result, entry, tier, issuedAt, fileAtIssue, seen) ==
    [key |-> k, result |-> result, entry |-> entry, tier |-> tier,
     issuedAt |-> issuedAt, at |-> now, fileAtIssue |-> fileAtIssue,
     seen |-> seen]

\* get(key) up to its return from the memory tier or to `await fs.readFile`
Get(k) ==
    /\ CanCall
    /\ csOpsLeft' = csOpsLeft - 1
    /\ LET ck == generateCacheKey(k)
       IN IF ck \in DOMAIN memoryCache /\ ~isExpired(memoryCache[ck], now)
          THEN /\ csLastGet' = GetReturn(k, "hit", memoryCache[ck], "memory", now,
                                         FileText(k), csLastSet[k])
               /\ UNCHANGED cacheOps
          ELSE /\ cacheOps' = [cacheOps EXCEPT ![FreeSlot] =
                     [IdleOp EXCEPT !.op = "get", !.key = k, !.pc = "readFile",
                                    !.issuedAt = now, !.fileAtIssue = FileText(k),
                                    !.seen = csLastSet[k]]]
               /\ UNCHANGED csLastGet
    /\ UNCHANGED <<notCacheVars, cacheOptions, memoryCache, cacheFiles,
                   csRestartsLeft, csCorruptLeft, csLastSet>>

\* get: fs.readFile settles; JSON.parse, isExpired, and then the return of
\* the data, the return of null from the catch block, or this.delete(key) up
\* to its `await fs.unlink`
GetReadFile(s) ==
    /\ cacheOps[s].op = "get"
    /\ cacheOps[s].pc = "readFile"
    /\ LET op == cacheOps[s]
           ck == generateCacheKey(op.key)
           path == getCacheFilePath(ck)
           miss == GetReturn(op.key, "miss", NoEntry, "none", op.issuedAt,
                             op.fileAtIssue, op.seen)
       IN IF path \notin DOMAIN cacheFiles \/ ~CanParse(cacheFiles[path])
          THEN /\ csLastGet' = miss
               /\ cacheOps' = [cacheOps EXCEPT ![s] = IdleOp]
               /\ UNCHANGED memoryCache
          ELSE IF isExpired(Parse(cacheFiles[path]), now)
               THEN /\ memoryCache' = Drop(memoryCache, ck)
                    /\ cacheOps' = [cacheOps EXCEPT ![s].pc = "unlink"]
                    /\ UNCHANGED csLastGet
               ELSE /\ memoryCache' = Put(memoryCache, ck, Parse(cacheFiles[path]))
                    /\ csLastGet' = GetReturn(op.key, "hit", Parse(cacheFiles[path]),
                                              "file", op.issuedAt, op.fileAtIssue,
                                              op.seen)
                    /\ cacheOps' = [cacheOps EXCEPT ![s] = IdleOp]
    /\ UNCHANGED <<notCacheVars, cacheOptions, cacheFiles, csOpsLeft,
                   csRestartsLeft, csCorruptLeft, csLastSet>>

\* set(key, data, ttl) up to `await fs.mkdir`
Set(k, ttlArg) ==
    /\ CanCall
    /\ csOpsLeft' = csOpsLeft - 1
    /\ LET ck == generateCacheKey(k)
           entry == [data |-> csOpsLeft, timestamp |-> now,
                     ttl |-> EffectiveTtl(ttlArg), key |-> ck]
       IN /\ memoryCache' = StoreInMemory(memoryCache, ck, entry)
          /\ cacheOps' = [cacheOps EXCEPT ![FreeSlot] =
                [IdleOp EXCEPT !.op = "set", !.key = k, !.pc = "writeFile",
                               !.entry = entry]]
          /\ csLastSet' = [csLastSet EXCEPT ![k] =
                [data |-> csOpsLeft, timestamp |-> now, ttlArg |-> ttlArg,
                 ttl |-> entry.ttl, wrote |-> "pending",
                 deleted |-> (\E s \in Slots : /\ cacheOps[s].op = "delete"
                                               /\ cacheOps[s].key = k),
                 restarted |-> FALSE, swept |-> FALSE]]
    /\ UNCHANGED <<notCacheVars, cacheOptions, cacheFiles,
                   csRestartsLeft, csCorruptLeft, csLastGet>>

\* set: fs.mkdir and fs.writeFile settle, or one of them throws and the
\* catch block logs the error; set returns
SetWriteFile(s) ==
    /\ cacheOps[s].op = "set"
    /\ cacheOps[s].pc = "writeFile"
    /\ LET op == cacheOps[s]
           path == getCacheFilePath(generateCacheKey(op.key))
           files == WriteFile(cacheFiles, path, op.entry)
       IN /\ cacheFiles' = files
          /\ csLastSet' =
                IF csLastSet[op.key].data = op.entry.data
                THEN [csLastSet EXCEPT ![op.key].wrote =
                         IF path \in DOMAIN files /\ files[path] = Stringify(op.entry)
                         THEN "ok" ELSE "failed"]
                ELSE csLastSet
    /\ cacheOps' = [cacheOps EXCEPT ![s] = IdleOp]
    /\ UNCHANGED <<notCacheVars, cacheOptions, memoryCache, csOpsLeft,
                   csRestartsLeft, csCorruptLeft, csLastGet>>

\* delete(key) up to `await fs.unlink`
Delete(k) ==
    /\ CanCall
    /\ csOpsLeft' = csOpsLeft - 1
    /\ memoryCache' = Drop(memoryCache, generateCacheKey(k))
    /\ cacheOps' = [cacheOps EXCEPT ![FreeSlot] =
          [IdleOp EXCEPT !.op = "delete", !.key = k, !.pc = "unlink"]]
    /\ csLastSet' = [csLastSet EXCEPT ![k].deleted = TRUE]
    /\ UNCHANGED <<notCacheVars, cacheOptions, cacheFiles,
                   csRestartsLeft, csCorruptLeft, csLastGet>>

\* delete: fs.unlink settles (a missing file is fine); delete returns, and
\* so does the get that called it, with null
Unlink(s) ==
    /\ cacheOps[s].op \in {"get", "delete"}
    /\ cacheOps[s].pc = "unlink"
    /\ LET op == cacheOps[s]
       IN /\ cacheFiles' = Drop(cacheFiles, getCacheFilePath(generateCacheKey(op.key)))
          /\ csLastGet' = IF op.op = "get"
                          THEN GetReturn(op.key, "miss", NoEntry, "none", op.issuedAt,
                                         op.fileAtIssue, op.seen)
                          ELSE csLastGet
    /\ cacheOps' = [cacheOps EXCEPT ![s] = IdleOp]
    /\ UNCHANGED <<notCacheVars, cacheOptions, memoryCache, csOpsLeft,
                   csRestartsLeft, csCorruptLeft, csLastSet>>

\* mutant: a sweep that empties the memory tier
ClearMemory(mem, t) == <<>>

\* for (const [key, entry] of this.memoryCache.entries())
\*     if (this.isExpired(entry)) this.memoryCache.delete(key)
SweepMemory(mem, t) ==
    [ck \in {c \in DOMAIN mem : ~isExpired(mem[c], t)} |-> mem[ck]]

\* cleanup() up to `await this.getAllCacheFiles()`: the sweep of the memory
\* tier
Cleanup ==
    /\ CanCall
    /\ csOpsLeft' = csOpsLeft - 1
    /\ memoryCache' = SweepMemory(memoryCache, now)
    /\ cacheOps' = [cacheOps EXCEPT ![FreeSlot] =
          [IdleOp EXCEPT !.op = "cleanup", !.pc = "scan", !.issuedAt = now]]
    /\ csLastSet' = [k \in CacheKeys |-> [csLastSet[k] EXCEPT !.swept = TRUE]]
    /\ UNCHANGED <<notCacheVars, cacheOptions, cacheFiles,
                   csRestartsLeft, csCorruptLeft, csLastGet>>

\* cleanup: getAllCacheFiles settles with the files it found
CleanupScan(s) ==
    /\ cacheOps[s].op = "cleanup"
    /\ cacheOps[s].pc = "scan"
    /\ cacheOps' = [cacheOps EXCEPT ![s] =
          IF DOMAIN cacheFiles = {} THEN IdleOp
          ELSE [cacheOps[s] EXCEPT !.pc = "readFile", !.todo = DOMAIN cacheFiles]]
    /\ UNCHANGED <<notCacheVars, cacheOptions, memoryCache, cacheFiles,
                   csOpsLeft, csRestartsLeft, csCorruptLeft, csLastSet, csLastGet>>

\* cleanup, the loop over the files: what follows the visit of the last file
AfterFile(op) ==
    IF op.todo = {} THEN IdleOp ELSE [op EXCEPT !.pc = "readFile", !.file = <<>>]

\* cleanup: fs.readFile(file) settles for the next file; an expired entry or
\* an invalid file is to be unlinked, and a file that has vanished ends the
\* cleanup (the unlink of the inner catch block throws to the outer one)
CleanupReadFile(s, f) ==
    /\ cacheOps[s].op = "cleanup"
    /\ cacheOps[s].pc = "readFile"
    /\ f \in cacheOps[s].todo
    /\ LET rest == [cacheOps[s] EXCEPT !.todo = @ \ {f}]
       IN cacheOps' = [cacheOps EXCEPT ![s] =
             IF f \notin DOMAIN cacheFiles THEN IdleOp
             ELSE IF ~CanParse(cacheFiles[f]) \/ isExpired(Parse(cacheFiles[f]), now)
                  THEN [rest EXCEPT !.pc = "unlink", !.file = f]
                  ELSE AfterFile(rest)]
    /\ UNCHANGED <<notCacheVars, cacheOptions, memoryCache, cacheFiles,
                   csOpsLeft, csRestartsLeft, csCorruptLeft, csLastSet, csLastGet>>

\* cleanup: fs.unlink(file) settles; it throws when the file has vanished,
\* which ends the cleanup
CleanupUnlink(s) ==
    /\ cacheOps[s].op = "cleanup"
    /\ cacheOps[s].pc = "unlink"
    /\ LET op == cacheOps[s]
       IN IF op.file \in DOMAIN cacheFiles
          THEN /\ cacheFiles' = Drop(cacheFiles, op.file)
               /\ cacheOps' = [cacheOps EXCEPT ![s] = AfterFile(op)]
          ELSE /\ cacheOps' = [cacheOps EXCEPT ![s] = IdleOp]
               /\ UNCHANGED cacheFiles
    /\ UNCHANGED <<notCacheVars, cacheOptions, memoryCache, csOpsLeft,
                   csRestartsLeft, csCorruptLeft, csLastSet, csLastGet>>

\* the environment overwrites the file of a key with text that is not JSON
Corrupt(k) ==
    /\ csCorruptLeft > 0
    /\ FileText(k) = "entry"
    /\ csCorruptLeft' = csCorruptLeft - 1
    /\ cacheFiles' = Put(cacheFiles, getCacheFilePath(generateCacheKey(k)), InvalidJson)
    /\ UNCHANGED <<notCacheVars, cacheOptions, memoryCache, cacheOps,
                   csOpsLeft, csRestartsLeft, csLastSet, csLastGet>>

\* new CacheService(cacheDir) on the directory of the previous instance,
\* which has no call in flight: the memory tier starts empty
Restart ==
    /\ csRestartsLeft > 0
    /\ Quiet
    /\ csRestartsLeft' = csRestartsLeft - 1
    /\ memoryCache' = <<>>
    /\ csLastSet' = [k \in CacheKeys |-> [csLastSet[k] EXCEPT !.restarted = TRUE]]
    /\ UNCHANGED <<notCacheVars, cacheOptions, cacheFiles, cacheOps,
                   csOpsLeft, csCorruptLeft, csLastGet>>

\* new CacheService(cacheDir, options) on an empty directory
InitCacheIdle ==
    /\ memoryCache = <<>>
    /\ cacheFiles = <<>>
    /\ cacheOps = [s \in Slots |-> IdleOp]
    /\ csLastSet = [k \in CacheKeys |-> NoSet]
    /\ csLastGet = NoGet

\* a component that is not part of the specification at hand
InitCacheUnused ==
    /\ csDefaultTtl = 0
    /\ csDirOk = TRUE
    /\ csOpsLeft = 0
    /\ csRestartsLeft = 0
    /\ csCorruptLeft = 0
    /\ InitCacheIdle

(***************************************************************************)
(* Specifications of the crawler.                                          *)
(***************************************************************************)
InitFetcher ==
    /\ pc = "idle"
    /\ mode = "pages"
    /\ maxDepth = 0
    /\ visited = {}
    /\ pages = <<>>
    /\ queue = <<>>
    /\ batchTasks = <<>>
    /\ abandoned = {}
    /\ pageCache = <<>>
    /\ resultCache = <<>>
    /\ completed = <<>>
    /\ returned = [kind |-> "none", fromCache |-> FALSE, mode |-> "pages",
                   maxDepth |-> 0, result |-> NoResult]
    /\ dispatched = <<>>

\* one crawl of a small site of NumUrls pages, any link structure of width
\* LinkWidth, the caches cold
Init ==
    /\ shape = "mesh"
    /\ siteSize = NumUrls
    /\ depthArg = MaxDepthBound
    /\ site = <<>>
    /\ crawlsLeft = 1
    /\ failuresLeft = MaxFailures
    /\ InitFetcher
    /\ maxConcurrent = FETCHER_MAX_CONCURRENT
    /\ InitQueueIdle
    /\ InitClockUnused
    /\ InitLimiterUnused
    /\ InitRetryUnused
    /\ InitBreakerUnused
    /\ InitConditionUnused
    /\ InitCacheUnused
    /\ InitPageUnused

\* repeated crawls of a small site, with different modes and maxDepth
InitRecrawl ==
    /\ shape = "mesh"
    /\ siteSize = RecrawlUrls
    /\ depthArg = RecrawlDepth
    /\ site = <<>>
    /\ crawlsLeft = Recrawls
    /\ failuresLeft = MaxFailures
    /\ InitFetcher
    /\ maxConcurrent = FETCHER_MAX_CONCURRENT
    /\ InitQueueIdle
    /\ InitClockUnused
    /\ InitLimiterUnused
    /\ InitRetryUnused
    /\ InitBreakerUnused
    /\ InitConditionUnused
    /\ InitCacheUnused
    /\ InitPageUnused

\* one crawl of a wide site: the root links to CapFanout pages, every fetch
\* succeeds
InitWide ==
    /\ shape = "star"
    /\ siteSize = CapFanout + 1
    /\ depthArg = MIN_DEPTH
    /\ site = <<>>
    /\ crawlsLeft = 1
    /\ failuresLeft = 0
    /\ InitFetcher
    /\ maxConcurrent = FETCHER_MAX_CONCURRENT
    /\ InitQueueIdle
    /\ InitClockUnused
    /\ InitLimiterUnused
    /\ InitRetryUnused
    /\ InitBreakerUnused
    /\ InitConditionUnused
    /\ InitCacheUnused
    /\ InitPageUnused

TaskStep(i) ==
    \/ TaskCacheHit(i)
    \/ TaskCacheMiss(i)
    \/ TaskFetchOk(i)
    \/ TaskFetchNull(i)
    \/ TaskFetchReject(i)
    \/ TaskTimeout(i)

\* one crawl
Next ==
    \/ \E m \in Modes, md \in MIN_DEPTH .. depthArg : FetchStart(m, md)
    \/ DispatchBatch
    \/ \E i \in 1 .. BATCH_SIZE : TaskStep(i)
    \/ ProcessResults
    \/ FetchFinish
    \/ \E page \in abandoned : AbandonedFetchOk(page)

\* crawls that follow one another and share the caches
NextRecrawl ==
    \/ Next
    \/ \E m \in Modes, md \in MIN_DEPTH .. depthArg : FetchCached(m, md)

\* one crawl in which every fetch succeeds
NextWide ==
    \/ \E m \in Modes, md \in MIN_DEPTH .. depthArg : FetchStart(m, md)
    \/ DispatchBatch
    \/ \E i \in 1 .. BATCH_SIZE : TaskCacheMiss(i)
    \/ \E i \in 1 .. BATCH_SIZE : TaskFetchOk(i)
    \/ ProcessResults
    \/ FetchFinish

Spec == Init /\ [][Next]_vars

SpecRecrawl == InitRecrawl /\ [][NextRecrawl]_vars

SpecWide == InitWide /\ [][NextWide]_vars

\* the event loop runs every continuation that is ready, and every dispatched
\* task settles or times out
Fairness ==
    /\ WF_vars(DispatchBatch)
    /\ WF_vars(ProcessResults)
    /\ WF_vars(FetchFinish)
    /\ \A i \in 1 .. BATCH_SIZE : WF_vars(TaskStep(i))

SpecLive == Init /\ [][Next]_vars /\ Fairness

(***************************************************************************)
(* Specification of the ConcurrencyQueue: any calls of add, addAll,        *)
(* addAllSettled and processConcurrentlySettled on NumTasks tasks, any     *)
(* task durations, any timeout.                                            *)
(***************************************************************************)
InitQueue ==
    /\ shape = "mesh"
    /\ siteSize = NumUrls
    /\ depthArg = MaxDepthBound
    /\ site = <<>>
    /\ crawlsLeft = 0
    /\ failuresLeft = 0
    /\ InitFetcher
    /\ maxConcurrent \in 1 .. MaxConcurrency
    /\ InitQueueIdle
    /\ InitClockUnused
    /\ InitLimiterUnused
    /\ InitRetryUnused
    /\ InitBreakerUnused
    /\ InitConditionUnused
    /\ InitCacheUnused
    /\ InitPageUnused

NextQueue ==
    \/ \E t \in Tasks : Add(t)
    \/ \E ts \in Batches : AddAll(ts)
    \/ \E ts \in Batches : AddAllSettled(ts)
    \/ \E ts \in Batches : ProcessConcurrentlySettled(ts)
    \/ \E t \in Tasks : TaskSucceeds(t)
    \/ \E t \in Tasks : TaskFails(t)
    \/ \E t \in Tasks : Timeout(t)

SpecQueue == InitQueue /\ [][NextQueue]_vars

\* every started task settles or reaches the timeout: while its timer is
\* armed, the task function ends or the timer fires
FairnessQueue ==
    \A t \in Tasks :
        WF_vars(timer[t] = "armed" /\ (TaskSucceeds(t) \/ TaskFails(t) \/ Timeout(t)))

SpecQueueLive == InitQueue /\ [][NextQueue]_vars /\ FairnessQueue

(***************************************************************************)
(* Specifications of the RateLimiter: a limiter built at time 0 with a     *)
(* full bucket, acquire calls at any moments, timers that fire at their    *)
(* deadline or later.                                                      *)
(***************************************************************************)
InitOnlyLimiter ==
    /\ shape = "mesh"
    /\ siteSize = NumUrls
    /\ depthArg = MaxDepthBound
    /\ site = <<>>
    /\ crawlsLeft = 0
    /\ failuresLeft = 0
    /\ InitFetcher
    /\ maxConcurrent = FETCHER_MAX_CONCURRENT
    /\ InitQueueIdle
    /\ now = 0
    /\ timeLimit = LimiterTime
    /\ rlMaxTokens \in 1 .. MaxTokensBound
    /\ InitLimiterIdle
    /\ InitRetryUnused
    /\ InitBreakerUnused
    /\ InitConditionUnused
    /\ InitCacheUnused
    /\ InitPageUnused

\* single-token acquire calls only
InitBurst ==
    /\ InitOnlyLimiter
    /\ rlMaxN = 1

NextBurst ==
    \/ Acquire(1)
    \/ \E c \in Acquires : AcquireWakes(c)
    \/ Tick

\* time passes and every timer fires
FairnessBurst ==
    /\ WF_vars(Tick)
    /\ \A c \in Acquires : WF_vars(AcquireWakes(c))

SpecBurst == InitBurst /\ [][NextBurst]_vars /\ FairnessBurst

\* acquire, tryAcquire and getTokens, for numbers of tokens that the bucket
\* can hold
InitLimiter ==
    /\ InitOnlyLimiter
    /\ rlMaxN = MaxAcquire

NextLimiter ==
    \/ \E n \in 1 .. Min(rlMaxN, rlMaxTokens) : Acquire(n)
    \/ \E c \in Acquires : AcquireWakes(c)
    \/ \E n \in 1 .. Min(rlMaxN, rlMaxTokens) : TryAcquire(n)
    \/ GetTokens
    \/ Tick

SpecLimiter == InitLimiter /\ [][NextLimiter]_vars

(***************************************************************************)
(* Specification of retry: one call of retry(fn, options), for every       *)
(* behaviour of fn and a sample of options.                                *)
(***************************************************************************)
\* baseDelay and maxDelay (30000 is the default), in ms; with jitter the
\* delays are explored on small values
InputBaseDelays == {1, 100}
JitterBaseDelays == {1, 4}
InputMaxDelays == {3, 250, 30000}

InitRetry ==
    /\ shape = "mesh"
    /\ siteSize = NumUrls
    /\ depthArg = MaxDepthBound
    /\ site = <<>>
    /\ crawlsLeft = 0
    /\ failuresLeft = 0
    /\ InitFetcher
    /\ maxConcurrent = FETCHER_MAX_CONCURRENT
    /\ InitQueueIdle
    /\ InitClockUnused
    /\ InitLimiterUnused
    /\ fnPlan \in [Attempts -> {"ok"} \cup ErrorKinds]
    /\ rtMaxAttempts \in Attempts
    /\ rtJitter \in BOOLEAN
    /\ rtBaseDelay \in IF rtJitter THEN JitterBaseDelays ELSE InputBaseDelays
    /\ rtMaxDelay \in InputMaxDelays
    /\ rtFactorNum \in FactorDen .. MaxFactorNum
    /\ rtRetryable \in {ErrorKinds, {"network"}}
    /\ InitRetryIdle
    /\ InitBreakerUnused
    /\ InitConditionUnused
    /\ InitCacheUnused
    /\ InitPageUnused

NextRetry ==
    \/ RetryStart
    \/ RetryFnResolves
    \/ RetryFnRejects
    \/ RetrySleepEnds

SpecRetry == InitRetry /\ [][NextRetry]_vars

(***************************************************************************)
(* Specification of the CircuitBreaker: overlapping execute calls whose    *)
(* wrapped functions resolve or reject at any moment, and the passage of   *)
(* time.                                                                   *)
(***************************************************************************)
InitBreaker ==
    /\ shape = "mesh"
    /\ siteSize = NumUrls
    /\ depthArg = MaxDepthBound
    /\ site = <<>>
    /\ crawlsLeft = 0
    /\ failuresLeft = 0
    /\ InitFetcher
    /\ maxConcurrent = FETCHER_MAX_CONCURRENT
    /\ InitQueueIdle
    /\ now = 0
    /\ timeLimit = BreakerTime
    /\ InitLimiterUnused
    /\ InitRetryUnused
    /\ cbThreshold \in 1 .. MaxThreshold
    /\ cbResetTimeout = ResetTicks
    /\ InitBreakerIdle
    /\ InitConditionUnused
    /\ InitCacheUnused
    /\ InitPageUnused

NextBreaker ==
    \/ \E c \in Calls : Execute(c)
    \/ \E c \in Calls : FnResolves(c)
    \/ \E c \in Calls : FnRejects(c)
    \/ Tick

SpecBreaker == InitBreaker /\ [][NextBreaker]_vars

\* the same, with reset() called at any moment
NextBreakerReset ==
    \/ \E c \in Calls : Execute(c)
    \/ \E c \in Calls : FnResolves(c)
    \/ \E c \in Calls : FnRejects(c)
    \/ Reset
    \/ Tick

SpecBreakerReset == InitBreaker /\ [][NextBreakerReset]_vars

(***************************************************************************)
(* Specification of the CircuitBreaker in which calls keep being made and  *)
(* every wrapped function settles.                                         *)
(***************************************************************************)
\* the crawler and its queue, not part of the specification at hand
InitCrawlerUnused ==
    /\ shape = "mesh"
    /\ siteSize = NumUrls
    /\ depthArg = MaxDepthBound
    /\ site = <<>>
    /\ crawlsLeft = 0
    /\ failuresLeft = 0
    /\ InitFetcher
    /\ maxConcurrent = FETCHER_MAX_CONCURRENT
    /\ InitQueueIdle

\* time enough for the breaker to leave OPEN once
InitBreakerLive ==
    /\ InitCrawlerUnused
    /\ now = 0
    /\ timeLimit = ResetTicks + 1
    /\ InitLimiterUnused
    /\ InitRetryUnused
    /\ cbThreshold \in 1 .. MaxThreshold
    /\ cbResetTimeout = ResetTicks
    /\ InitBreakerIdle
    /\ InitConditionUnused
    /\ InitCacheUnused
    /\ InitPageUnused

\* the callers go on calling execute, and every wrapped function settles
FairnessBreaker ==
    /\ \A c \in Calls : WF_vars(Execute(c))
    /\ \A c \in Calls : WF_vars(FnResolves(c) \/ FnRejects(c))

SpecBreakerLive == InitBreakerLive /\ [][NextBreaker]_vars /\ FairnessBreaker

(***************************************************************************)
(* Specification of the page fetches: PageFetches pages are fetched one    *)
(* after the other through the breaker, each with a retry of every         *)
(* behaviour of fetchSinglePage.  The delays of the retry are counted in   *)
(* units of DelayUnit ms, and so is their jitter.                          *)
(***************************************************************************)
InitPageFetch ==
    /\ InitCrawlerUnused
    /\ InitClockUnused
    /\ InitLimiterUnused
    /\ fnPlan \in FetchPlans
    /\ rtMaxAttempts = FETCH_MAX_ATTEMPTS
    /\ rtBaseDelay = FETCH_BASE_DELAY \div DelayUnit
    /\ rtMaxDelay = DEFAULT_MAX_DELAY \div DelayUnit
    /\ rtFactorNum = FETCH_BACKOFF_FACTOR * FactorDen
    /\ rtJitter = TRUE
    /\ rtRetryable = {"network"}
    /\ InitRetryIdle
    /\ cbThreshold \in 1 .. MaxThreshold
    /\ cbResetTimeout = ResetTicks
    /\ InitBreakerIdle
    /\ InitConditionUnused
    /\ InitCacheUnused
    /\ InitPageUnused

NextPageFetch ==
    \/ \E c \in Calls : PageFetchExecute(c)
    \/ PageFetchRetry
    \/ RetryFnResolves
    \/ RetryFnRejects
    \/ RetrySleepEnds
    \/ \E c \in Calls : PageFetchResolves(c)
    \/ \E c \in Calls : PageFetchRejects(c)
    \/ PageFetchReturns
    \/ NextPageBehaviour

SpecPageFetch == InitPageFetch /\ [][NextPageFetch]_vars

(***************************************************************************)
(* Specification of one URL fetched PageFetches times, step by step: the   *)
(* page cache cold or warm, a bucket of one token, every behaviour of the  *)
(* upstream.                                                               *)
(***************************************************************************)
InitPage ==
    /\ InitCrawlerUnused
    /\ now = 0
    /\ timeLimit = LimiterTime
    /\ rlMaxTokens = 1
    /\ rlMaxN = 1
    /\ InitLimiterIdle
    /\ fnPlan \in FetchPlans
    /\ rtMaxAttempts = FETCH_MAX_ATTEMPTS
    /\ rtBaseDelay = FETCH_BASE_DELAY \div DelayUnit
    /\ rtMaxDelay = DEFAULT_MAX_DELAY \div DelayUnit
    /\ rtFactorNum = FETCH_BACKOFF_FACTOR * FactorDen
    /\ rtJitter = FALSE
    /\ rtRetryable = {"network"}
    /\ InitRetryIdle
    /\ cbThreshold = 1
    /\ cbResetTimeout = ResetTicks
    /\ InitBreakerIdle
    /\ InitConditionUnused
    /\ InitCacheUnused
    /\ pfCached \in BOOLEAN
    /\ InitPageIdle

NextPage ==
    \/ PageCall
    \/ PageCacheHit
    \/ PageCacheMiss
    \/ \E c \in Calls : PageExecute(c)
    \/ PageRetry
    \/ PageAcquire
    \/ \E c \in Acquires : AcquireWakes(c)
    \/ \E status \in StatusCodes \cup {NoResponse} : PageRequest(status)
    \/ PageFnResolves
    \/ PageFnRejects
    \/ RetrySleepEnds
    \/ \E c \in Calls : PageResolves(c)
    \/ \E c \in Calls : PageRejects(c)
    \/ PageReturns
    \/ PageExpires
    \/ Tick

SpecPage == InitPage /\ [][NextPage]_vars

(***************************************************************************)
(* Specification of RetryConditions: networkAndServerErrors applied to the *)
(* error `HTTP <code> error` of every 4xx and 5xx code.                    *)
(***************************************************************************)
InitCondition ==
    /\ InitCrawlerUnused
    /\ InitClockUnused
    /\ InitLimiterUnused
    /\ InitRetryUnused
    /\ InitBreakerUnused
    /\ rcCode \in HttpCodes
    /\ rcResult = "none"
    /\ InitCacheUnused
    /\ InitPageUnused

NextCondition == ApplyCondition

SpecCondition == InitCondition /\ [][NextCondition]_vars

(***************************************************************************)
(* Specifications of the CacheService: NumCacheOps calls of get, set,      *)
(* delete and cleanup with the passage of time, a corruption of a file and *)
(* a new instance on the same directory; the directory can be written or   *)
(* not.  In SpecCacheSeq every call is awaited before the next is made, in *)
(* SpecCache the calls overlap.                                            *)
(***************************************************************************)
InitCache ==
    /\ InitCrawlerUnused
    /\ now = 0
    /\ timeLimit = CacheTime
    /\ InitLimiterUnused
    /\ InitRetryUnused
    /\ InitBreakerUnused
    /\ InitConditionUnused
    /\ csDefaultTtl = MaxTtl + 1
    /\ csDirOk \in BOOLEAN
    /\ csOpsLeft = NumCacheOps
    /\ csRestartsLeft = 1
    /\ csCorruptLeft = 1
    /\ InitCacheIdle
    /\ InitPageUnused

\* overlapping calls on a directory that can be written and is left alone
InitCacheOverlap ==
    /\ InitCrawlerUnused
    /\ now = 0
    /\ timeLimit = CacheTime
    /\ InitLimiterUnused
    /\ InitRetryUnused
    /\ InitBreakerUnused
    /\ InitConditionUnused
    /\ csDefaultTtl = MaxTtl + 1
    /\ csDirOk = TRUE
    /\ csOpsLeft = NumCacheOps
    /\ csRestartsLeft = 0
    /\ csCorruptLeft = 0
    /\ InitCacheIdle
    /\ InitPageUnused

CacheCall ==
    \/ \E k \in CacheKeys : Get(k)
    \/ \E k \in CacheKeys, ttlArg \in TtlArgs : Set(k, ttlArg)
    \/ \E k \in CacheKeys : Delete(k)
    \/ Cleanup

CacheStep ==
    \/ \E s \in Slots : GetReadFile(s)
    \/ \E s \in Slots : SetWriteFile(s)
    \/ \E s \in Slots : Unlink(s)
    \/ \E s \in Slots : CleanupScan(s)
    \/ \E s \in Slots, k \in CacheKeys :
          CleanupReadFile(s, getCacheFilePath(generateCacheKey(k)))
    \/ \E s \in Slots : CleanupUnlink(s)

CacheEnvironment ==
    \/ \E k \in CacheKeys : Corrupt(k)
    \/ Restart
    \/ Tick

NextCacheSeq ==
    \/ Quiet /\ CacheCall
    \/ CacheStep
    \/ CacheEnvironment

NextCache ==
    \/ CacheCall
    \/ CacheStep
    \/ Tick

SpecCacheSeq == InitCache /\ [][NextCacheSeq]_vars

SpecCache == InitCacheOverlap /\ [][NextCache]_vars

(***************************************************************************)
(* Properties of the crawler.                                              *)
(***************************************************************************)
\* the pages of the tasks that were fulfilled with a page, in dispatch order
RECURSIVE FetchedPages(_)
FetchedPages(log) ==
    IF log = <<>> THEN <<>>
    ELSE IF log[1].status = "fulfilled" /\ log[1].value # <<>>
         THEN <<log[1].value[1]>> \o FetchedPages(Tail(log))
         ELSE FetchedPages(Tail(log))

\* C1: during one crawl, each distinct URL is dispatched to the page fetcher
\* at most once, also when the URL sits in the frontier twice and both
\* copies fall into the same batch.
C1_DispatchedOnce ==
    \A i, j \in DOMAIN dispatched :
        i # j => dispatched[i].url # dispatched[j].url

\* C2: the number of pages in the result of a crawl (pageCount) is at most
\* 100, whatever the number of pages collected when the last batch starts.
C2_PageCountWithinCap ==
    returned.kind = "result" => returned.result.pageCount <= PAGE_LIMIT

\* C3: every page collected by a crawl has depth <= the maxDepth of that
\* crawl, whether it was fetched from the network or served from the page
\* cache that an earlier crawl filled.
C3_DepthWithinMaxDepth ==
    \A i \in DOMAIN pages : pages[i].depth <= maxDepth

\* C4: a rejected page fetch does not fail the crawl: the pages collected are
\* exactly the pages of the fulfilled tasks, of the same batch and of later
\* batches, in dispatch order, and the result returned is built from them.
C4_RejectedTasksAreSkipped ==
    /\ pc # "await" => pages = FetchedPages(dispatched)
    /\ (returned.kind = "result" /\ ~returned.fromCache)
          => returned.result = BuildResult(mode, FetchedPages(dispatched))

\* C4 witness: a crawl has returned a result although a task was rejected,
\* with a page fetched in the batch of the rejected task and one in a later
\* batch.
C4_Witness ==
    /\ returned.kind = "result"
    /\ \E i, j, k \in DOMAIN dispatched :
          /\ dispatched[i].status = "rejected"
          /\ dispatched[j].batch = dispatched[i].batch
          /\ dispatched[j].status = "fulfilled" /\ dispatched[j].value # <<>>
          /\ dispatched[k].batch > dispatched[i].batch
          /\ dispatched[k].status = "fulfilled" /\ dispatched[k].value # <<>>
          /\ dispatched[j].value[1] \in Range(returned.result.pages)
          /\ dispatched[k].value[1] \in Range(returned.result.pages)

\* C5: when the root page cannot be fetched, so that the crawl yields zero
\* pages, fetchAggregated and fetchPages do not return a result.
C5_ZeroPagesIsAFailure ==
    returned.kind = "result" => returned.result.pageCount > 0

\* C6: fetchAllPages terminates for any link structure (cycles included) and
\* any pattern of fetch successes and failures: a crawl that has started
\* returns.
C6_CrawlTerminates == (pc # "idle") ~> (pc = "idle")

\* C6 witness: a crawl of a site with a cycle (a page that links back to the
\* root) has returned, after a rejected fetch.
C6_Witness ==
    /\ pc = "idle"
    /\ returned.kind = "result"
    /\ Len(pages) >= 2
    /\ \E u \in DOMAIN site : RootUrl \in Range(site[u])
    /\ \E i \in DOMAIN dispatched : dispatched[i].status = "rejected"

(***************************************************************************)
(* Properties of the ConcurrencyQueue.                                     *)
(***************************************************************************)
\* the task functions that have been started and have not finished
Executing == {t \in Tasks : tstate[t] = "executing"}

\* the task functions whose timer fired before they settled
TimedOutTasks == {t \in Tasks : timer[t] = "fired"}

\* C7, as stated: at every moment the number of task functions started and
\* not yet finished is at most maxConcurrent, for any queue timeout.
C7_ExecutingWithinLimit == Cardinality(Executing) <= maxConcurrent

\* C7, amended: at every moment the number of task functions started that
\* have neither finished nor timed out is at most maxConcurrent, and it is
\* the running counter; a task whose timer has fired goes on executing
\* without a slot.
C7_RunningWithinLimit ==
    /\ running <= maxConcurrent
    /\ running = Cardinality(Executing \ TimedOutTasks)

\* C7 witness: every slot is taken while a timed-out task function is still
\* executing, so more than maxConcurrent task functions execute.
C7_Witness ==
    /\ running = maxConcurrent
    /\ Executing \cap TimedOutTasks # {}
    /\ Cardinality(Executing) > maxConcurrent

\* the task function of t resolved before the timer of t fired
SucceededInTime(t) == tresult[t] = "ok" /\ timer[t] # "fired"

C9_OutputsAligned ==
    /\ (callKind = "addAll" /\ callResult.status = "fulfilled") =>
          \A i \in DOMAIN callTasks : callResult.value[i] = ValueOf(callTasks[i])
    /\ (callKind \in {"addAllSettled", "processConcurrentlySettled"}
          /\ callResult.status = "fulfilled") =>
          \A i \in DOMAIN callTasks :
              callResult.value[i] \in
                  {ValueOf(callTasks[i]), ErrorOf(callTasks[i]), TimedOut}
    /\ (callKind = "processConcurrentlySettled"
          /\ callResult.status = "fulfilled") =>
          LET out == SplitSettled(callResult.value)
          IN /\ \A k \in DOMAIN out.errors :
                    /\ out.errors[k].index \in DOMAIN callTasks
                    /\ ~SucceededInTime(callTasks[out.errors[k].index])
                    /\ out.errors[k].error \in
                          {ErrorOf(callTasks[out.errors[k].index]), TimedOut}
             /\ \A i \in DOMAIN callTasks :
                    ~SucceededInTime(callTasks[i]) =>
                        \E k \in DOMAIN out.errors : out.errors[k].index = i
             /\ Len(out.results) + Len(out.errors) = Len(callTasks)

\* C9 witness: processConcurrentlySettled has resolved, the items completed
\* in another order than they were given, and one of them failed.
C9_Witness ==
    /\ callKind = "processConcurrentlySettled"
    /\ callResult.status = "fulfilled"
    /\ Len(callTasks) >= 2
    /\ settleOrder # callTasks
    /\ \E k \in DOMAIN SplitSettled(callResult.value).errors :
          SplitSettled(callResult.value).errors[k].error.kind = "error"

\* C10: a task that has not settled when the timer of the queue fires makes
\* add() reject with the 'timed out' error, and that outcome is final: the
\* promise stays rejected with it when the task function completes later.
C10_TimeoutIsFinal ==
    \A t \in Tasks : timer[t] = "fired" => promise[t] = TimedOut

\* C10 witness: the task function of a timed-out task has completed with a
\* value after its timeout.
C10_Witness ==
    \E t \in Tasks :
        /\ timer[t] = "fired"
        /\ tstate[t] = "finished"
        /\ tresult[t] = "ok"

(***************************************************************************)
(* Properties of the RateLimiter.                                          *)
(***************************************************************************)
\* C11: starting from a full bucket of maxTokens, the first maxTokens
\* single-token acquire() calls complete without waiting; the next acquire()
\* does not complete before the time one token takes to refill has passed,
\* and it does complete once the token has refilled.
C11_BurstThenWait ==
    /\ [](\A c \in Acquires :
            (c <= rlMaxTokens /\ rlCalls[c].state # "new") =>
                /\ rlCalls[c].state = "done"
                /\ rlCalls[c].doneAt = rlCalls[c].calledAt)
    /\ [](\A c \in Acquires :
            (c = rlMaxTokens + 1 /\ rlCalls[c].state = "done") =>
                rlCalls[c].doneAt >= TicksPerToken)
    /\ \A c \in Acquires :
          (c = rlMaxTokens + 1 /\ rlCalls[c].state = "sleeping")
              ~> (rlCalls[c].state = "done")

\* C11 witness: the bucket was emptied at once, and the next acquire() has
\* completed after waiting for one token.
C11_Witness ==
    /\ \A c \in 1 .. rlMaxTokens : rlCalls[c].state = "done" /\ rlCalls[c].doneAt = 0
    /\ rlCalls[rlMaxTokens + 1].state = "done"
    /\ rlCalls[rlMaxTokens + 1].calledAt = 0
    /\ rlCalls[rlMaxTokens + 1].doneAt = TicksPerToken

\* C12: under any interleaving of concurrent acquire calls on one
\* RateLimiter, the token count is never below 0 after a deduction.
C12_TokensNeverNegative == rlTokens >= 0

(***************************************************************************)
(* Properties of retry.                                                    *)
(***************************************************************************)
\* the number of failures of fn before its first success
FailuresBeforeSuccess ==
    IF \E i \in Attempts : fnPlan[i] = "ok"
    THEN (CHOOSE i \in Attempts :
             fnPlan[i] = "ok" /\ \A j \in 1 .. (i - 1) : fnPlan[j] # "ok") - 1
    ELSE MaxAttemptsBound

RetryEnded == rtPc \in {"resolved", "rejected"}

\* C13: with a retry condition that always allows a retry, retry invokes fn
\* exactly min(k+1, maxAttempts) times, k being the number of failures of fn
\* before its first success; it resolves with the first successful result,
\* and when all maxAttempts calls fail it rejects with the error of the last
\* call.
C13_InvocationsAndOutcome ==
    rtRetryable = ErrorKinds =>
        LET k == FailuresBeforeSuccess
        IN /\ rtInvocations <= Min(k + 1, rtMaxAttempts)
           /\ RetryEnded =>
                /\ rtInvocations = Min(k + 1, rtMaxAttempts)
                /\ IF k + 1 <= rtMaxAttempts
                   THEN rtPc = "resolved" /\ rtResult = FnValue(k + 1)
                   ELSE rtPc = "rejected" /\ rtResult = FnError(rtMaxAttempts)

\* C13 witness: retry has resolved with the result of the third invocation,
\* after two failures.
C13_Witness ==
    /\ rtRetryable = ErrorKinds
    /\ rtPc = "resolved"
    /\ rtInvocations = 3
    /\ rtMaxAttempts > 3

\* C14: when retryCondition returns false for an error, retry rejects with
\* that error at once: fn is not invoked again and no backoff delay is
\* taken, however many attempts remain.
C14_NonRetryableIsFinal ==
    (rtInvocations > 0 /\ rtPc # "calling"
        /\ fnPlan[rtInvocations] \in ErrorKinds \ rtRetryable) =>
        /\ rtPc = "rejected"
        /\ rtResult = FnError(rtInvocations)
        /\ rtSleeps = rtInvocations - 1

\* C14 witness: retry has rejected with an error that is not retryable, on
\* its second attempt and with attempts left.
C14_Witness ==
    /\ rtPc = "rejected"
    /\ rtResult.kind \notin rtRetryable
    /\ rtInvocations = 2
    /\ rtMaxAttempts > 2

\* the delay of the retry that follows failed attempt rtAttempt has just been
\* computed, with jitter disabled
PlainDelayTaken == rtPc = "sleeping" /\ ~rtJitter

\* C15, as stated: with jitter disabled, the delay before the retry that
\* follows failed attempt a is min(maxDelay, baseDelay * backoffFactor^(a-1)),
\* and never more than maxDelay.
C15_DelayIsExact ==
    PlainDelayTaken =>
        LET den == Pow(FactorDen, rtAttempt - 1)
            num == rtBaseDelay * Pow(rtFactorNum, rtAttempt - 1)
        IN /\ rtDelay * den = Min(rtMaxDelay * den, num)
           /\ rtDelay <= rtMaxDelay

\* C15, amended: with jitter disabled, the delay is
\* min(maxDelay, baseDelay * backoffFactor^(a-1)) rounded to the nearest
\* millisecond, halves up: 100, 200, 400 ms for baseDelay=100 and
\* backoffFactor=2, and never more than maxDelay.
C15_DelayIsRounded ==
    PlainDelayTaken =>
        LET den == Pow(FactorDen, rtAttempt - 1)
            num == Min(rtMaxDelay * den, rtBaseDelay * Pow(rtFactorNum, rtAttempt - 1))
        IN /\ 2 * num - den < 2 * rtDelay * den
           /\ 2 * rtDelay * den <= 2 * num + den
           /\ rtDelay <= rtMaxDelay
           /\ (rtBaseDelay = 100 /\ rtFactorNum = 2 * FactorDen
                  /\ rtMaxDelay >= 400 /\ rtAttempt <= 3) =>
                 rtDelay = <<100, 200, 400>>[rtAttempt]

\* C15 witness: the delay after the third failed attempt is 400 ms for
\* baseDelay=100 and backoffFactor=2.
C15_Witness ==
    /\ PlainDelayTaken
    /\ rtBaseDelay = 100
    /\ rtFactorNum = 2 * FactorDen
    /\ rtAttempt = 3
    /\ rtDelay = 400

(***************************************************************************)
(* Properties of the CircuitBreaker.                                       *)
(***************************************************************************)
\* the steps of call c: it is admitted (its function is invoked), refused,
\* and its function resolves or rejects
Admitted(c) == cbCalls[c] = "new" /\ cbCalls'[c] = "running"
Refused(c) == cbCalls[c] = "new" /\ cbCalls'[c] = "refused"
Succeeded(c) == cbCalls[c] = "running" /\ cbCalls'[c] = "ok"
Failed(c) == cbCalls[c] = "running" /\ cbCalls'[c] = "failed"

\* C16: a CLOSED breaker becomes OPEN exactly when failureThreshold failures
\* have been recorded with no success in between: a success while CLOSED
\* resets failureCount to 0, and fewer than failureThreshold consecutive
\* failures leave the breaker CLOSED.
C16_OpensAtThreshold ==
    /\ [](cbState = "CLOSED" =>
            cbFailureCount = cbStreak /\ cbStreak < cbThreshold)
    /\ [][cbState = "CLOSED" =>
            /\ (cbState' = "OPEN") <=>
                  (cbStreak' = cbThreshold /\ \E c \in Calls : Failed(c))
            /\ (\E c \in Calls : Succeeded(c)) =>
                  (cbFailureCount' = 0 /\ cbState' = "CLOSED")]_vars

\* C16 witness: a breaker with failureThreshold 2 has opened from CLOSED
\* after a failure, a success and two failures.
C16_Witness ==
    /\ cbState = "OPEN"
    /\ cbTrial = 0
    /\ cbThreshold = 2
    /\ cbStreak = 2
    /\ Cardinality({c \in Calls : cbCalls[c] = "failed"}) = 3
    /\ \E c \in Calls : cbCalls[c] = "ok"

\* C17: while the breaker is OPEN and resetTimeout has not elapsed since
\* lastFailureTime, every execute call rejects with the circuit-open error
\* and the wrapped function is not invoked.
C17_OpenRefuses ==
    [][\A c \in Calls :
          (cbState = "OPEN" /\ now - cbLastFailureTime <= cbResetTimeout
              /\ cbCalls[c] = "new" /\ cbCalls'[c] # "new") =>
             (Refused(c) /\ cbInvocations' = cbInvocations)]_vars

\* C17 witness: a call has been refused exactly resetTimeout after the last
\* failure.
C17_Witness ==
    /\ cbState = "OPEN"
    /\ now - cbLastFailureTime = cbResetTimeout
    /\ cbCalls[NextCall - 1] = "refused"

\* C18: once the breaker has been OPEN for more than resetTimeout since
\* lastFailureTime, the next execute call moves it to HALF_OPEN and invokes
\* the wrapped function; a single success of that call (the only outcome
\* recorded since) leaves the breaker in HALF_OPEN.
C18_HalfOpenAfterReset ==
    [][\A c \in Calls :
          /\ (cbState = "OPEN" /\ now - cbLastFailureTime > cbResetTimeout
                 /\ cbCalls[c] = "new" /\ cbCalls'[c] # "new") =>
                (/\ cbState' = "HALF_OPEN"
                 /\ Admitted(c)
                 /\ cbInvocations' = cbInvocations + 1)
          /\ (c = cbTrial /\ cbRecorded = 0 /\ Succeeded(c)) =>
                cbState' = "HALF_OPEN"]_vars

\* C18 witness: the call that moved the breaker to HALF_OPEN has succeeded,
\* nothing else has been recorded, and the breaker is HALF_OPEN.
C18_Witness ==
    /\ cbState = "HALF_OPEN"
    /\ cbTrial # 0
    /\ cbCalls[cbTrial] = "ok"
    /\ cbRecorded = 1

\* C19: a breaker in HALF_OPEN moves to CLOSED after 3 consecutive successes
\* recorded in HALF_OPEN, with failureCount equal to 0 at that moment, and it
\* does not move to CLOSED after fewer than 3.
C19_ClosesAfterThree ==
    [][cbState = "HALF_OPEN" =>
          /\ (cbState' = "CLOSED") <=>
                (cbRecorded' = SUCCESSES_TO_CLOSE /\ \E c \in Calls : Succeeded(c))
          /\ (cbState' = "CLOSED") => cbFailureCount' = 0]_vars

\* C19 witness: the breaker has closed again after three successes in
\* HALF_OPEN.
C19_Witness ==
    /\ cbState = "CLOSED"
    /\ cbTrial # 0
    /\ cbRecorded = SUCCESSES_TO_CLOSE
    /\ cbFailureCount = 0

\* C20: a single failure recorded while the breaker is HALF_OPEN moves it
\* straight back to OPEN and sets lastFailureTime to the time of that
\* failure, so that a full resetTimeout elapses again before a call is
\* admitted.
C20_HalfOpenFailureReopens ==
    [][\A c \in Calls :
          /\ (cbState = "HALF_OPEN" /\ Failed(c)) =>
                (cbState' = "OPEN" /\ cbLastFailureTime' = now)
          /\ (cbState = "OPEN" /\ cbReopenedAt >= 0 /\ Admitted(c)) =>
                now - cbReopenedAt > cbResetTimeout]_vars

\* C20 witness: after a failure in HALF_OPEN the breaker has waited and is
\* HALF_OPEN again.
C20_Witness ==
    /\ cbState = "HALF_OPEN"
    /\ cbReopenedAt >= 0
    /\ cbCalls[cbTrial] = "running"
    /\ cbRecorded = 0

(***************************************************************************)
(* Properties of the CircuitBreaker under fairness, of the page fetches    *)
(* and of RetryConditions.                                                 *)
(***************************************************************************)
\* the execute calls still to be made or still to settle
CallsToCome == Cardinality({c \in Calls : cbCalls[c] \in {"new", "running"}})

\* C21: the breaker does not stay in HALF_OPEN forever: when execute calls
\* keep being made (here: the calls still to come are as many as the successes
\* HALF_OPEN still waits for) and every wrapped call settles, a breaker in
\* HALF_OPEN reaches CLOSED or OPEN.
C21_LeavesHalfOpen ==
    (cbState = "HALF_OPEN" /\ CallsToCome >= SUCCESSES_TO_CLOSE - cbSuccessCount)
        ~> (cbState \in {"CLOSED", "OPEN"})

\* C21 witness: a breaker that was HALF_OPEN has left it, every call is
\* settled.
C21_Witness ==
    /\ cbTrial # 0
    /\ cbRecorded >= 1
    /\ cbState \in {"CLOSED", "OPEN"}
    /\ CallsToCome = 0

\* C22: one page fetch (one circuitBreaker.execute around retry) raises
\* failureCount by at most 1: the failure is recorded only when retry has
\* given up (attempts exhausted or error not retryable), never once per
\* failed attempt.
C22_OneFailurePerFetch ==
    /\ [](cbFailureCount <= Cardinality({c \in Calls : cbCalls[c] = "failed"}))
    /\ [][/\ cbFailureCount' > cbFailureCount =>
                /\ cbFailureCount' = cbFailureCount + 1
                /\ \E c \in Calls : Failed(c)
          /\ \A c \in Calls : Failed(c) =>
                /\ rtPc = "rejected"
                /\ rtInvocations >= 1
                /\ \/ rtInvocations = FETCH_MAX_ATTEMPTS
                   \/ rtLastError.kind \notin rtRetryable]_vars

\* C22 witness: a page fetch whose three attempts failed has raised
\* failureCount from 0 to 1.
C22_Witness ==
    /\ rtPc = "rejected"
    /\ rtInvocations = FETCH_MAX_ATTEMPTS
    /\ rtSleeps = FETCH_MAX_ATTEMPTS - 1
    /\ cbCalls[1] = "failed"
    /\ cbCalls[2] = "new"
    /\ cbFailureCount = 1

\* C23: networkAndServerErrors applied to an error with the message
\* `HTTP <code> error` returns true for code 429 and for every 5xx code, and
\* false for every other 4xx code.
C23_HttpErrorsCategorised ==
    rcResult # "none" =>
        (rcResult = "true" <=> (rcCode = 429 \/ rcCode >= 500))

(***************************************************************************)
(* Properties of the CacheService.                                         *)
(***************************************************************************)
\* the last get that returned was called after a set of its key, on the
\* instance of that set, with no delete of the key in between
GetAfterSet ==
    /\ csLastGet.result # "none"
    /\ csLastGet.seen.data # 0
    /\ ~csLastGet.seen.deleted
    /\ ~csLastGet.seen.restarted

\* the time between that set and the call of the get
AgeAtGet == csLastGet.issuedAt - csLastGet.seen.timestamp

\* C24: for every key k, value v and ttl, get(k) issued after set(k, v, ttl)
\* and before ttl has elapsed returns v, and get(k) issued more than ttl
\* after the set returns a miss (with no set of k in between).
C24_SetThenGet ==
    (GetAfterSet /\ csLastGet.seen.ttlArg # <<>>) =>
        /\ AgeAtGet < csLastGet.seen.ttlArg[1] =>
              (csLastGet.result = "hit" /\ csLastGet.entry.data = csLastGet.seen.data)
        /\ AgeAtGet > csLastGet.seen.ttlArg[1] => csLastGet.result = "miss"

\* C25: in every interleaving of set, get, delete, cleanup and the passage of
\* time, get never returns the data of an entry for which
\* now - timestamp > ttl, whether the entry is read from the memory tier or
\* from the file tier.
C25_NeverReturnsExpired ==
    csLastGet.result = "hit" =>
        csLastGet.at - csLastGet.entry.timestamp <= csLastGet.entry.ttl

\* C25 witness: a get has returned an entry from the file tier in the last
\* tick of its life, while another call was in flight.
C25_Witness ==
    /\ csLastGet.result = "hit"
    /\ csLastGet.tier = "file"
    /\ csLastGet.at - csLastGet.entry.timestamp = csLastGet.entry.ttl
    /\ ~Quiet

C28_CorruptedFileIsMiss ==
    (csLastGet.result # "none" /\ csLastGet.fileAtIssue = "invalid json") =>
        csLastGet.result = "miss"


(***************************************************************************)
(* Properties of fetchAggregated / fetchPages over crawls that follow one  *)
(* another, and of the frontier.                                           *)
(***************************************************************************)
\* C29: once fetchAggregated or fetchPages has completed for a (mode,
\* maxDepth) of the repository, a later call with the same mode and maxDepth
\* returns the result stored by that crawl without dispatching any page
\* fetch; a call whose mode or maxDepth has no completed crawl is not served
\* from the cache: it starts a crawl.
C29_StoredResultReused ==
    [][crawlsLeft' < crawlsLeft =>
          IF <<returned'.mode, returned'.maxDepth>> \in DOMAIN completed
          THEN /\ returned'.kind = "result"
               /\ returned'.fromCache
               /\ returned'.result = completed[<<returned'.mode, returned'.maxDepth>>]
               /\ dispatched' = dispatched
               /\ batchTasks' = batchTasks
               /\ pc' = "idle"
          ELSE /\ ~returned'.fromCache
               /\ returned'.kind = "none"
               /\ pc' = "loop"]_vars

\* C29 witness: a call was served from the cache while a crawl for the other
\* mode or another maxDepth could have been stored, and the stored result has
\* more than one page.
C29_Witness ==
    /\ returned.kind = "result"
    /\ returned.fromCache
    /\ returned.result.pageCount > 1
    /\ <<returned.mode, returned.maxDepth>> \in DOMAIN completed
    /\ crawlsLeft = 0

\* the frontier entry and the dispatched task {url, depth} come from the
\* links of a collected page with depth < maxDepth, at the depth of the page
\* plus 1
PushedFrom(t) ==
    \E i \in DOMAIN pages :
        /\ pages[i].depth < maxDepth
        /\ t.depth = pages[i].depth + 1
        /\ t.url \in Range(site[pages[i].url])

IsRootTask(t) == t.url = RootUrl /\ t.depth = 0

\* C30: no task is dispatched with depth > maxDepth, and every task in the
\* frontier or dispatched, other than the root task, was pushed from a
\* collected (fulfilled, non-null) page with depth < maxDepth, at the depth
\* of that page plus 1.
C30_DepthBoundedFrontier ==
    /\ \A i \in DOMAIN dispatched : dispatched[i].depth <= maxDepth
    /\ \A i \in DOMAIN queue : IsRootTask(queue[i]) \/ PushedFrom(queue[i])
    /\ \A i \in DOMAIN dispatched :
           IsRootTask(dispatched[i]) \/ PushedFrom(dispatched[i])

\* C30 witness: the results of a batch have been processed, a page collected
\* at depth = maxDepth has a link not yet visited, and a task pushed at
\* depth maxDepth was dispatched.
C30_Witness ==
    /\ pc = "loop"
    /\ \E i \in DOMAIN pages :
           /\ pages[i].depth = maxDepth
           /\ \E l \in Range(site[pages[i].url]) : l \notin visited
    /\ \E i \in DOMAIN dispatched :
           dispatched[i].depth = maxDepth /\ dispatched[i].depth > 0

(***************************************************************************)
(* Properties of the crawl result.                                         *)
(***************************************************************************)
\* task i of the dispatch history was fulfilled with the page
FulfilledWith(i, page) ==
    dispatched[i].status = "fulfilled" /\ dispatched[i].value = <<page>>

\* C31: the pages of a crawl are in the order in which their tasks were
\* dispatched, whatever the order in which the fetches of a batch completed:
\* of two pages collected, the earlier one belongs to a task dispatched
\* earlier, and the result returned lists the pages in that order.
C31_PagesInDispatchOrder ==
    /\ pc # "await" =>
          \A a, b \in DOMAIN pages :
              a < b => \E i, j \in DOMAIN dispatched :
                          i < j /\ FulfilledWith(i, pages[a]) /\ FulfilledWith(j, pages[b])
    /\ (returned.kind = "result" /\ ~returned.fromCache) =>
          IF returned.mode = "pages"
          THEN returned.result.pages = pages
          ELSE returned.result.content = [i \in DOMAIN pages |-> pages[i].url]

\* C31 witness: a crawl has returned a result with two pages of one batch
\* whose fetches completed in the reverse of their dispatch order.
C31_Witness ==
    /\ returned.kind = "result"
    /\ ~returned.fromCache
    /\ \E i, j \in DOMAIN dispatched :
           /\ i < j
           /\ dispatched[i].batch = dispatched[j].batch
           /\ dispatched[j].order > 0
           /\ dispatched[i].order > dispatched[j].order
           /\ \E a, b \in DOMAIN pages :
                  FulfilledWith(i, pages[a]) /\ FulfilledWith(j, pages[b])

\* the URLs reachable from the root within d links, over the links of the
\* pages that the site has served
RECURSIVE Reachable(_)
Reachable(d) ==
    IF d = 0 THEN {RootUrl}
    ELSE Reachable(d - 1) \cup
         UNION {Range(site[u]) : u \in Reachable(d - 1) \cap DOMAIN site}

\* every fetch of the crawl that returned has succeeded
EveryFetchSucceeded ==
    /\ failuresLeft = MaxFailures
    /\ returned.kind = "result"
    /\ ~returned.fromCache

\* C32: when every fetch succeeds, the caches are cold and fewer than 100
\* URLs are reachable, the crawl returns exactly one page for each URL
\* reachable from the root within maxDepth links and no other page.
C32_OnePagePerReachableUrl ==
    EveryFetchSucceeded =>
        /\ {pages[i].url : i \in DOMAIN pages} = Reachable(maxDepth)
        /\ returned.result.pageCount = Cardinality(Reachable(maxDepth))

(***************************************************************************)
(* Properties of fetchSinglePageWithRetry.                                 *)
(***************************************************************************)
\* fetchSinglePageWithRetry has returned or thrown after a miss of the cache
FetchReturned == pfLookup = "miss" /\ pfResult # "none"

\* C33: a page fetch whose responses all have a 5xx status is retried up to
\* maxAttempts times, is then rejected, and counts as one failure of the
\* circuit breaker.
C33_ServerErrorIsRetried ==
    (/\ FetchReturned
     /\ pfResponses # <<>>
     /\ \A i \in DOMAIN pfResponses : ServerError(pfResponses[i]))
        => /\ Len(pfResponses) = FETCH_MAX_ATTEMPTS
           /\ pfResult = "rejected"
           /\ cbCalls[pfCall] = "failed"

\* the breaker has been consulted for the fetch in hand
BreakerConsulted == pfCall \in Calls /\ cbCalls[pfCall] # "new"

\* a page-cache hit returns the page without a token, the breaker or the
\* network
HitTouchesNothing ==
    pfLookup = "hit" =>
        /\ pfResult = "page"
        /\ AcquiresOfFetch = 0
        /\ pfCall = 0
        /\ pfResponses = <<>>

\* C34: in one fetch the cache lookup comes first, the rate-limiter acquire
\* precedes the call of retry inside the circuit breaker, and the network
\* call comes last, inside that call; a page-cache hit returns the page
\* without a token, the breaker or a network call.
C34_FetchOrder ==
    /\ pfLookup = "none" => (AcquiresOfFetch = 0 /\ pfCall = 0 /\ pfResponses = <<>>)
    /\ BreakerConsulted => AcquiresOfFetch >= 1
    /\ pfResponses # <<>> =>
          (pfLookup = "miss" /\ BreakerConsulted /\ cbCalls[pfCall] # "refused")
    /\ HitTouchesNothing

(***************************************************************************)
(* Properties of the CacheService: expired entries.                        *)
(***************************************************************************)
\* the memory tier, or the file tier, holds an entry of key k that is expired
\* at time t
ExpiredInMemory(mem, k, t) ==
    /\ generateCacheKey(k) \in DOMAIN mem
    /\ t - mem[generateCacheKey(k)].timestamp > mem[generateCacheKey(k)].ttl

ExpiredInFile(files, k, t) ==
    LET path == getCacheFilePath(generateCacheKey(k))
    IN /\ path \in DOMAIN files
       /\ CanParse(files[path])
       /\ t - Parse(files[path]).timestamp > Parse(files[path]).ttl

\* C35: when a get(key) that found the entry of the key expired returns its
\* miss, the expired entry is in neither tier any more, whichever tier held
\* it (calls awaited one after the other).
C35_ExpiredEntryIsDeleted ==
    [][(csLastGet' # csLastGet /\ csLastGet'.result = "miss") =>
          /\ ~ExpiredInMemory(memoryCache', csLastGet'.key, now)
          /\ ~ExpiredInFile(cacheFiles', csLastGet'.key, now)]_vars

\* the entry of the last set of the key of the last get could be retrieved
\* when the get was called: the memory tier of the instance held it, or a
\* new instance found its file
Retrievable ==
    /\ csLastGet.seen.data # 0
    /\ ~csLastGet.seen.deleted
    /\ \/ ~csLastGet.seen.restarted
       \/ csLastGet.seen.wrote = "ok" /\ csCorruptLeft = 1

\* C36: when cleanup() returns, no entry that was expired when it was called
\* is left in the memory tier or in the file tier; and an entry that is not
\* expired when get returns is still returned by get, with the value of its
\* set, after a cleanup (calls awaited one after the other).
C36_CleanupRemovesExpiredOnly ==
    [][/\ \A s \in Slots :
             (cacheOps[s].op = "cleanup" /\ cacheOps'[s] = IdleOp) =>
                 \A k \in CacheKeys :
                     /\ ~ExpiredInMemory(memoryCache', k, cacheOps[s].issuedAt)
                     /\ ~ExpiredInFile(cacheFiles', k, cacheOps[s].issuedAt)
       /\ (/\ csLastGet' # csLastGet
           /\ csLastGet'.seen.swept
           /\ Retrievable'
           /\ csLastGet'.at - csLastGet'.seen.timestamp <= csLastGet'.seen.ttl) =>
              /\ csLastGet'.result = "hit"
              /\ csLastGet'.entry.data = csLastGet'.seen.data]_vars

\* C36 witness: a cleanup has returned and the entry of a set, which was in
\* both tiers and had expired, is in neither, with no get or delete to
\* remove it.
C36_Witness ==
    /\ Quiet
    /\ csLastGet = NoGet
    /\ \E k \in CacheKeys :
           /\ csLastSet[k].swept
           /\ csLastSet[k].wrote = "ok"
           /\ ~csLastSet[k].deleted
           /\ ~csLastSet[k].restarted
           /\ generateCacheKey(k) \notin DOMAIN memoryCache
           /\ getCacheFilePath(generateCacheKey(k)) \notin DOMAIN cacheFiles

(***************************************************************************)
(* Properties of the CacheService: overlapping calls.                      *)
(***************************************************************************)
\* what get(k) would return at time t: the data of the unexpired entry of
\* the memory tier, else the data of the unexpired entry of the file, else 0
\* for a miss
WouldGet(k, t) ==
    LET ck == generateCacheKey(k)
        path == getCacheFilePath(ck)
    IN IF ck \in DOMAIN memoryCache
          /\ t - memoryCache[ck].timestamp <= memoryCache[ck].ttl
       THEN memoryCache[ck].data
       ELSE IF /\ path \in DOMAIN cacheFiles
               /\ CanParse(cacheFiles[path])
               /\ t - Parse(cacheFiles[path]).timestamp <= Parse(cacheFiles[path]).ttl
            THEN Parse(cacheFiles[path]).data
            ELSE 0

\* C37: the calls on one key are atomic with respect to each other: when
\* set(k, v) overlaps a get(k) or a cleanup() that read an older, expired
\* entry of k, the new entry is not removed from either tier, and once all
\* calls have finished get(k) returns v (no delete of k, v not expired).
C37_SetSurvivesOverlap ==
    \A k \in CacheKeys :
        (/\ Quiet
         /\ csLastSet[k].data # 0
         /\ ~csLastSet[k].deleted
         /\ now - csLastSet[k].timestamp <= csLastSet[k].ttl) =>
            /\ generateCacheKey(k) \in DOMAIN memoryCache
            /\ getCacheFilePath(generateCacheKey(k)) \in DOMAIN cacheFiles
            /\ WouldGet(k, now) = csLastSet[k].data

\* C38: every task passed to add() is eventually started and its promise
\* eventually settles, given that each started task settles or reaches the
\* timeout; no task waits in the queue while running < maxConcurrent.
C38_EveryTaskStartsAndSettles ==
    /\ [](Len(cqQueue) > 0 => running >= maxConcurrent)
    /\ \A t \in Tasks :
          (tstate[t] # "new") ~>
              (tstate[t] \notin {"new", "queued"} /\ promise[t].status # "pending")

\* every task was added at once to a queue of one slot, so all but the first
\* waited in the queue, and every promise has settled
C38_Witness ==
    /\ maxConcurrent = 1
    /\ callKind = "addAll"
    /\ Len(callTasks) = NumTasks
    /\ \A t \in Tasks : tstate[t] \notin {"new", "queued"} /\ promise[t].status # "pending"

\* C39: in every reachable state of the breaker, under any interleaving of
\* overlapping execute calls and of reset(), state = CLOSED implies
\* failureCount < failureThreshold.
C39_ClosedBelowThreshold == cbState = "CLOSED" => cbFailureCount < cbThreshold

\* C39 witness: the breaker is CLOSED with one failure counted although more
\* failures in a row have been recorded: reset() closed the breaker after
\* the threshold was reached, and a call that was in flight then failed
C39_Witness ==
    /\ cbState = "CLOSED"
    /\ cbFailureCount = 1
    /\ cbStreak > cbThreshold

\* C40: an execute call that is rejected because the breaker is OPEN leaves
\* state, failureCount, successCount and lastFailureTime unchanged, so the
\* moment from which the breaker admits a call again does not move.
C40_RefusalChangesNothing ==
    [][\A c \in Calls :
          (cbCalls[c] = "new" /\ cbCalls'[c] = "refused") =>
             /\ cbState' = cbState
             /\ cbFailureCount' = cbFailureCount
             /\ cbSuccessCount' = cbSuccessCount
             /\ cbLastFailureTime' = cbLastFailureTime]_vars

\* C40 witness: calls were refused at two different moments after the
\* failure that opened the breaker, and the first call later than
\* resetTimeout after that failure has been admitted
C40_Witness ==
    /\ cbState = "HALF_OPEN"
    /\ now = cbLastFailureTime + cbResetTimeout + 1
    /\ Cardinality({c \in Calls : cbCalls[c] = "refused"}) >= 2
    /\ cbTrial = NextCall - 1
    /\ cbCalls[cbTrial] = "running"

====
